---------------------------- MODULE Spec2Model ----------------------------
(***************************************************************************)
(* The configuration store of the user experience toolkit                  *)
(* (package config): the tenants and applications of one YAML document,    *)
(* their validation, the CRUD operations of Config and the reader-writer   *)
(* lock that guards them; and the envelope cipher (package crypto) that    *)
(* keeps the sensitive fields of the document encrypted at rest, with the  *)
(* resolution of its master key.                                           *)
(*                                                                         *)
(*   SpecV  the validation functions applied to every shape of input       *)
(*   Spec   the Store's operations, one action per handler                 *)
(*   SpecC  the same operations, step by step, run by concurrent callers   *)
(*   SpecE  Encrypt and Decrypt applied to strings of every shape          *)
(*   SpecF  EncryptSensitiveFields and DecryptSensitiveFields on records   *)
(*   SpecP  one call of the sensitive-field functions, in every order of   *)
(*          visit and with a failing rand.Reader                           *)
(*   SpecK  NewCryptoManager step by step, run by concurrent callers,      *)
(*          with the override and the key file changed from outside        *)
(*   SpecR  the same steps with nothing changed from outside               *)
(*   SpecL  LoadConfig and Save over the files LoadConfig may find         *)
(*   SpecS  the Store loading and saving with encryption at rest           *)
(*   SpecH  the Store under the HTTP handlers: the backing array of the    *)
(*          applications, the pointer GetApplication returns, the public   *)
(*          Save; SpecHFair adds the scheduler's fairness                  *)
(***************************************************************************)
EXTENDS Integers, Sequences, FiniteSets, TLC

VARIABLES
    Tenants,        \* c.Tenants
    Applications,   \* c.Applications
    file,           \* the backing file at c.filepath
    last,           \* the call that ran last: [op, id, err, saved]
    ioFailures,     \* SpecC: how many writes of the backing file have failed
    vKind, vApp, vTenant, vErr,   \* SpecV: the record under validation, the answer
    mu,             \* SpecC: c.mu, [writer, readers]
    pc,             \* SpecC: each caller's position
    call,           \* SpecC: each caller's operation, arguments and locals
    serial,         \* SpecC: the document the calls yield run one after another
    array,          \* SpecH: the backing array of c.Applications
    text,           \* SpecE: the string handed to the cipher
    fields,         \* SpecF: the record handed to the sensitive-field functions
    log,            \* SpecE, SpecF: the calls made so far, with their results
    rand,           \* the nonces and the raw keys rand.Reader has given out
    EncryptionEnabled,  \* SpecS: c.EncryptionEnabled
    cryptoManager,      \* SpecS: c.cryptoManager, the key it holds
    env,            \* SpecK: the value of UET_MASTER_KEY
    keyFile,        \* SpecK: the key file .uet_key, [exists, data]
    unlinked        \* SpecK: the files no longer at .uet_key that are still open

storeVars == <<Tenants, Applications, file, last, ioFailures>>
validateVars == <<vKind, vApp, vTenant, vErr>>
concVars == <<mu, pc, call, serial, array>>
cryptoVars == <<text, fields, log, rand, EncryptionEnabled, cryptoManager>>
keyVars == <<env, keyFile, unlinked>>
vars == <<Tenants, Applications, file, last, ioFailures,
          vKind, vApp, vTenant, vErr, mu, pc, call, serial, array,
          text, fields, log, rand, EncryptionEnabled, cryptoManager,
          env, keyFile, unlinked>>

-----------------------------------------------------------------------------
(* Bounds *)

MaxApps == 3          \* applications the document may hold
MaxTenants == 2       \* tenants the document may hold
MaxIOFailures == 1    \* writes of the backing file that may fail in one run

-----------------------------------------------------------------------------
(* Records *)

\* The no-error value of Go's error type.
nil == "<nil>"

\* type Tenant struct
Tenant(id, name, key, secret, host) ==
    [ID |-> id, Name |-> name, AdminAPIKey |-> key,
     AdminAPISecret |-> secret, APIHostname |-> host]

\* type Application struct (the fields the store reads)
Application(id, tenantID, name, type, enabled, clientID, clientSecret, host, entityID, acsURL, redirectURI) ==
    [ID |-> id, TenantID |-> tenantID, Name |-> name, Type |-> type,
     Enabled |-> enabled, ClientID |-> clientID, ClientSecret |-> clientSecret,
     APIHostname |-> host, EntityID |-> entityID, ACSURL |-> acsURL,
     RedirectURI |-> redirectURI]

-----------------------------------------------------------------------------
(* Validation *)

validTypes == <<"websdk", "dmp", "saml", "oidc">>

\* The loop over validTypes: TRUE when one of them equals t.
isValidType(t) == \E i \in 1..Len(validTypes) : validTypes[i] = t

validateApplicationNoCredentials(app) ==
    IF app.Name = "" THEN "application name is required"
    ELSE IF app.Type = "" THEN "application type is required"
    ELSE IF ~isValidType(app.Type) THEN
        "invalid application type: " \o app.Type
            \o " (must be one of: websdk, dmp, saml, oidc)"
    ELSE IF app.Type = "saml" /\ app.EntityID = ""
    THEN "entity_id is required for SAML applications"
    ELSE IF app.Type = "saml" /\ app.ACSURL = ""
    THEN "acs_url is required for SAML applications"
    ELSE IF app.APIHostname = "" THEN "api_hostname is required"
    ELSE nil

validateApplicationSamlNeedsClient(app) ==
    IF app.Name = "" THEN "application name is required"
    ELSE IF app.Type = "" THEN "application type is required"
    ELSE IF ~isValidType(app.Type) THEN
        "invalid application type: " \o app.Type
            \o " (must be one of: websdk, dmp, saml, oidc)"
    ELSE IF app.ClientID = "" THEN "client_id is required"
    ELSE IF app.ClientSecret = "" THEN "client_secret is required"
    ELSE IF app.APIHostname = "" THEN "api_hostname is required"
    ELSE nil

\* func validateApplication(app *Application) error
validateApplication(app) ==
    IF app.Name = "" THEN "application name is required"
    ELSE IF app.Type = "" THEN "application type is required"
    ELSE IF ~isValidType(app.Type) THEN
        "invalid application type: " \o app.Type
            \o " (must be one of: websdk, dmp, saml, oidc)"
    ELSE IF app.Type = "saml" THEN
        IF app.EntityID = "" THEN "entity_id is required for SAML applications"
        ELSE IF app.ACSURL = "" THEN "acs_url is required for SAML applications"
        ELSE IF app.APIHostname = "" THEN "api_hostname is required"
        ELSE nil
    ELSE IF app.Type = "oidc" THEN
        IF app.ClientID = "" THEN "client_id is required for OIDC applications"
        ELSE IF app.ClientSecret = "" THEN "client_secret is required for OIDC applications"
        ELSE IF app.RedirectURI = "" THEN "redirect_uri is required for OIDC applications"
        ELSE IF app.APIHostname = "" THEN "api_hostname is required"
        ELSE nil
    ELSE
        IF app.ClientID = "" THEN "client_id is required"
        ELSE IF app.ClientSecret = "" THEN "client_secret is required"
        ELSE IF app.APIHostname = "" THEN "api_hostname is required"
        ELSE nil

validateTenantNoSecretCheck(tenant) ==
    IF tenant.Name = "" THEN "tenant name is required"
    ELSE IF tenant.AdminAPIKey = "" THEN "admin_api_key is required"
    ELSE IF tenant.APIHostname = "" THEN "api_hostname is required"
    ELSE nil

\* func validateTenant(tenant *Tenant) error
validateTenant(tenant) ==
    IF tenant.Name = "" THEN "tenant name is required"
    ELSE IF tenant.AdminAPIKey = "" THEN "admin_api_key is required"
    ELSE IF tenant.AdminAPISecret = "" THEN "admin_api_secret is required"
    ELSE IF tenant.APIHostname = "" THEN "api_hostname is required"
    ELSE nil

\* The messages validateApplication and validateTenant return.
ValidationErrors ==
    {"application name is required", "application type is required",
     "entity_id is required for SAML applications",
     "acs_url is required for SAML applications",
     "client_id is required for OIDC applications",
     "client_secret is required for OIDC applications",
     "redirect_uri is required for OIDC applications",
     "client_id is required", "client_secret is required",
     "api_hostname is required", "tenant name is required",
     "admin_api_key is required", "admin_api_secret is required"}
    \cup {"invalid application type: " \o t
            \o " (must be one of: websdk, dmp, saml, oidc)" : t \in {"bogus"}}

-----------------------------------------------------------------------------
(* Serialization and the backing file *)

MarshalTenantWithoutSecret(t) ==
    [id |-> t.ID, name |-> t.Name, admin_api_key |-> t.AdminAPIKey,
     api_hostname |-> t.APIHostname]

\* The yaml keys of Tenant, and those dropped when empty (none).
MarshalTenant(t) ==
    [id |-> t.ID, name |-> t.Name, admin_api_key |-> t.AdminAPIKey,
     admin_api_secret |-> t.AdminAPISecret, api_hostname |-> t.APIHostname]

\* The yaml keys of Application: the omitempty keys are left out when empty.
\* A record without the deprecated IsDMP field has it false.
ApplicationYaml(a) ==
    [id |-> a.ID, tenant_id |-> a.TenantID, name |-> a.Name, type |-> a.Type,
     is_dmp |-> IF "IsDMP" \in DOMAIN a THEN a.IsDMP ELSE FALSE,
     enabled |-> a.Enabled, client_id |-> a.ClientID,
     client_secret |-> a.ClientSecret, api_hostname |-> a.APIHostname,
     entity_id |-> a.EntityID, acs_url |-> a.ACSURL,
     redirect_uri |-> a.RedirectURI]

ApplicationOmitEmpty ==
    {"tenant_id", "is_dmp", "entity_id", "acs_url", "redirect_uri"}

\* omitempty: whether v is the zero value of the field key.
IsZero(key, v) == IF key = "is_dmp" THEN ~v ELSE v = ""

MarshalApplication(a) ==
    LET y == ApplicationYaml(a)
        keys == {k \in DOMAIN y : k \notin ApplicationOmitEmpty \/ ~IsZero(k, y[k])}
    IN [k \in keys |-> y[k]]

\* yaml.Marshal(c): tenants is omitempty, applications is always written.
Marshal(T, A) ==
    LET apps == [i \in 1..Len(A) |-> MarshalApplication(A[i])]
        tens == [i \in 1..Len(T) |-> MarshalTenant(T[i])]
    IN IF T = <<>> THEN [applications |-> apps]
       ELSE [tenants |-> tens, applications |-> apps]

\* What os.WriteFile can do: write everything, fail to open (the file keeps its
\* content) or fail after truncating (a strict prefix of the data is left).
IOResults == {"ok", "open failed", "write failed"}

saveNoWrite(T, A, F, io) == [file |-> F, err |-> nil]

\* func (c *Config) save() error
save(T, A, F, io) ==
    LET data == Marshal(T, A)
    IN IF io = "ok" THEN [file |-> [data |-> data, complete |-> TRUE], err |-> nil]
       ELSE IF io = "open failed"
       THEN [file |-> F, err |-> "failed to write config file: open"]
       ELSE [file |-> [data |-> data, complete |-> FALSE],
             err |-> "failed to write config file: write"]

SaveErrors ==
    {"failed to write config file: open", "failed to write config file: write"}

-----------------------------------------------------------------------------
(* The Store's operations as functions of the document *)

\* What a call leaves behind: the lists, the file, the error it returns, the
\* identifier it acted on and whether it reached save().
Outcome(T, A, F, id, err, saved) ==
    [Tenants |-> T, Applications |-> A, file |-> F, id |-> id, err |-> err,
     saved |-> saved]

indexOfOrFirst(list, id) ==
    IF \E i \in 1..Len(list) : list[i].ID = id
    THEN CHOOSE i \in 1..Len(list) :
            /\ list[i].ID = id
            /\ \A j \in 1..(i - 1) : list[j].ID # id
    ELSE IF list = <<>> THEN 0 ELSE 1

\* The index of the first record of list whose ID is id, 0 when there is none.
indexOf(list, id) ==
    IF \E i \in 1..Len(list) : list[i].ID = id
    THEN CHOOSE i \in 1..Len(list) :
            /\ list[i].ID = id
            /\ \A j \in 1..(i - 1) : list[j].ID # id
    ELSE 0

existsNever(list, id) == FALSE

\* The duplicate check of AddApplication and AddTenant.
exists(list, id) == \E i \in 1..Len(list) : list[i].ID = id

\* append(list[:i], list[i+1:]...)
removeAt(list, i) == SubSeq(list, 1, i - 1) \o SubSeq(list, i + 1, Len(list))

RECURSIVE filter(_, _)
\* The applications whose tenant reference is not id, in order.
filter(A, id) ==
    IF A = <<>> THEN <<>>
    ELSE IF Head(A).TenantID # id THEN <<Head(A)>> \o filter(Tail(A), id)
    ELSE filter(Tail(A), id)

notFound(kind, id) == kind \o " with id '" \o id \o "' not found"
alreadyExists(kind, id) == kind \o " with id '" \o id \o "' already exists"

AddApplicationResultValidatesLast(T, A, F, app, uuid, io) ==
    LET a == IF app.ID = "" THEN [app EXCEPT !.ID = uuid] ELSE app
        verr == validateApplication(a)
    IN IF exists(A, a.ID)
       THEN Outcome(T, A, F, a.ID, alreadyExists("application", a.ID), FALSE)
       ELSE LET A2 == Append(A, a)
            IN IF verr # nil THEN Outcome(T, A2, F, a.ID, verr, FALSE)
               ELSE LET s == save(T, A2, F, io)
                    IN Outcome(T, A2, s.file, a.ID, s.err, TRUE)

\* func (c *Config) AddApplication(app Application) error
AddApplicationResult(T, A, F, app, uuid, io) ==
    LET a == IF app.ID = "" THEN [app EXCEPT !.ID = uuid] ELSE app
        verr == validateApplication(a)
    IN IF verr # nil THEN Outcome(T, A, F, a.ID, verr, FALSE)
       ELSE IF exists(A, a.ID)
       THEN Outcome(T, A, F, a.ID, alreadyExists("application", a.ID), FALSE)
       ELSE LET A2 == Append(A, a)
                s == save(T, A2, F, io)
            IN Outcome(T, A2, s.file, a.ID, s.err, TRUE)

updatedKeepsOwnID(id, updatedApp) == updatedApp

\* updatedApp.ID = id: the record UpdateApplication stores.
updated(id, updatedApp) == [updatedApp EXCEPT !.ID = id]

\* func (c *Config) UpdateApplication(id string, updatedApp Application) error
UpdateApplicationResult(T, A, F, id, updatedApp, io) ==
    LET verr == validateApplication(updatedApp)
        i == indexOf(A, id)
    IN IF verr # nil THEN Outcome(T, A, F, id, verr, FALSE)
       ELSE IF i = 0 THEN Outcome(T, A, F, id, notFound("application", id), FALSE)
       ELSE LET A2 == [A EXCEPT ![i] = updated(id, updatedApp)]
                s == save(T, A2, F, io)
            IN Outcome(T, A2, s.file, id, s.err, TRUE)

\* func (c *Config) DeleteApplication(id string) error
DeleteApplicationResult(T, A, F, id, io) ==
    LET i == indexOf(A, id)
    IN IF i = 0 THEN Outcome(T, A, F, id, notFound("application", id), FALSE)
       ELSE LET A2 == removeAt(A, i)
                s == save(T, A2, F, io)
            IN Outcome(T, A2, s.file, id, s.err, TRUE)

\* func (c *Config) AddTenant(tenant Tenant) error
AddTenantResult(T, A, F, tenant, uuid, io) ==
    LET t == IF tenant.ID = "" THEN [tenant EXCEPT !.ID = uuid] ELSE tenant
        verr == validateTenant(t)
    IN IF verr # nil THEN Outcome(T, A, F, t.ID, verr, FALSE)
       ELSE IF exists(T, t.ID)
       THEN Outcome(T, A, F, t.ID, alreadyExists("tenant", t.ID), FALSE)
       ELSE LET T2 == Append(T, t)
                s == save(T2, A, F, io)
            IN Outcome(T2, A, s.file, t.ID, s.err, TRUE)

remainingAppsAll(A, id) == A

\* The remainingApps loop of DeleteTenant.
remainingApps(A, id) == filter(A, id)

\* func (c *Config) DeleteTenant(id string) error
DeleteTenantResult(T, A, F, id, io) ==
    LET tenantIndex == indexOf(T, id)
    IN IF tenantIndex = 0 THEN Outcome(T, A, F, id, notFound("tenant", id), FALSE)
       ELSE LET A2 == remainingApps(A, id)
                T2 == removeAt(T, tenantIndex)
                s == save(T2, A2, F, io)
            IN Outcome(T2, A2, s.file, id, s.err, TRUE)

-----------------------------------------------------------------------------
(* The parts of the state a specification leaves idle *)

ZeroApplication == Application("", "", "", "", FALSE, "", "", "", "", "", "")
ZeroTenant == Tenant("", "", "", "", "")

InitIdleStore ==
    /\ Tenants = <<>>
    /\ Applications = <<>>
    /\ file = [data |-> Marshal(<<>>, <<>>), complete |-> TRUE]
    /\ last = [op |-> "LoadConfig", id |-> "", err |-> nil, saved |-> FALSE,
               before |-> <<0, 0>>]
    /\ ioFailures = 0

InitIdleValidate ==
    /\ vKind = "none"
    /\ vApp = ZeroApplication
    /\ vTenant = ZeroTenant
    /\ vErr = "pending"

InitIdleConc ==
    /\ mu = [writer |-> "none", readers |-> {}]
    /\ pc = <<>>
    /\ call = <<>>
    /\ serial = <<>>
    /\ array = <<>>

InitIdleCrypto ==
    /\ text = <<>>
    /\ fields = <<>>
    /\ log = <<>>
    /\ rand = {}
    /\ EncryptionEnabled = FALSE
    /\ cryptoManager = "none"

\* No override and no key file.
NoKeyFile == [exists |-> FALSE, data |-> ""]

InitIdleKey ==
    /\ env = ""
    /\ keyFile = NoKeyFile
    /\ unlinked = <<>>

-----------------------------------------------------------------------------
(* Spec: the Store on a disk that does not fail, one action per operation *)

UUIDs == {"u1"}                      \* what uuid.New().String() may return
AppIDs == {"a1", "a2"}               \* identifiers a caller supplies
TenantIDs == {"t1"}
TenantRefs == {"", "t1", "u1"}       \* tenant references of applications

\* A redirect-prompt application with its credentials under every tenant
\* reference, a SAML application with entity id and ACS URL and no credentials,
\* and a redirect-prompt application with the SAML fields and no credentials.
AppInputs ==
    {Application(id, tid, "Web", "websdk", TRUE, "client", "secret", "api.example", "", "", "") :
        id \in AppIDs \cup {""}, tid \in TenantRefs}
    \cup
    {Application(id, "t1", "Saml", "saml", FALSE, "", "", "api.example", "urn:sp", "https://sp/acs", "") :
        id \in AppIDs \cup {""}}
    \cup
    {Application(id, "", "Web", "websdk", TRUE, "", "", "api.example", "urn:sp", "https://sp/acs", "") :
        id \in {"", "a1"}}

\* UpdateApplication overwrites the ID of its argument: one supplied ID shows it.
UpdateInputs == {a \in AppInputs : a.ID \in {"", "a1"}}

TenantInputs ==
    {Tenant(id, "Tenant", "key", secret, "api.example") :
        id \in TenantIDs \cup {""}, secret \in {"", "secret"}}

Init ==
    /\ Tenants = <<>>
    /\ Applications = <<>>
    /\ file = [data |-> Marshal(<<>>, <<>>), complete |-> TRUE]
    /\ last = [op |-> "LoadConfig", id |-> "", err |-> nil, saved |-> FALSE,
               before |-> <<0, 0>>]
    /\ ioFailures = 0
    /\ InitIdleValidate
    /\ InitIdleKey
    /\ InitIdleConc
    /\ InitIdleCrypto

\* The state a call leaves: r is its Outcome. last also keeps how many tenants
\* and applications the document held when the call began.
Returns(op, r) ==
    /\ Tenants' = r.Tenants
    /\ Applications' = r.Applications
    /\ file' = r.file
    /\ last' = [op |-> op, id |-> r.id, err |-> r.err, saved |-> r.saved,
                before |-> <<Len(Tenants), Len(Applications)>>]
    /\ UNCHANGED <<ioFailures, validateVars, keyVars, concVars, cryptoVars>>

AddApplication ==
    \E app \in AppInputs, uuid \in UUIDs :
        /\ Len(Applications) < MaxApps
        /\ Returns("AddApplication",
                   AddApplicationResult(Tenants, Applications, file, app, uuid, "ok"))

UpdateApplication ==
    \E id \in AppIDs \cup UUIDs, app \in UpdateInputs :
        Returns("UpdateApplication",
                UpdateApplicationResult(Tenants, Applications, file, id, app, "ok"))

DeleteApplication ==
    \E id \in AppIDs \cup UUIDs :
        Returns("DeleteApplication",
                DeleteApplicationResult(Tenants, Applications, file, id, "ok"))

AddTenant ==
    \E tenant \in TenantInputs, uuid \in UUIDs :
        /\ Len(Tenants) < MaxTenants
        /\ Returns("AddTenant",
                   AddTenantResult(Tenants, Applications, file, tenant, uuid, "ok"))

DeleteTenant ==
    \E id \in TenantIDs \cup UUIDs :
        Returns("DeleteTenant",
                DeleteTenantResult(Tenants, Applications, file, id, "ok"))

Next ==
    \/ AddApplication
    \/ UpdateApplication
    \/ DeleteApplication
    \/ AddTenant
    \/ DeleteTenant

Spec == Init /\ [][Next]_vars

-----------------------------------------------------------------------------
(* SpecV: validation applied to every shape of record *)

Strs == {"", "x"}
TypeInputs == {"", "websdk", "dmp", "saml", "oidc", "bogus"}

AllApplications ==
    {Application(id, "", name, type, TRUE, cid, cs, host, eid, acs, ruri) :
        id \in {"", "a1"}, name \in Strs, type \in TypeInputs, cid \in Strs,
        cs \in Strs, host \in Strs, eid \in Strs, acs \in Strs, ruri \in Strs}

AllTenants ==
    {Tenant(id, name, key, secret, host) :
        id \in {"", "t1"}, name \in Strs, key \in Strs, secret \in Strs,
        host \in Strs}

InitV ==
    /\ \/ vKind = "app" /\ vApp \in AllApplications /\ vTenant = ZeroTenant
       \/ vKind = "tenant" /\ vTenant \in AllTenants /\ vApp = ZeroApplication
    /\ vErr = "pending"
    /\ InitIdleStore
    /\ InitIdleConc
    /\ InitIdleCrypto
    /\ InitIdleKey

ValidateApp ==
    /\ vKind = "app"
    /\ vErr = "pending"
    /\ vErr' = validateApplication(vApp)
    /\ UNCHANGED <<vKind, vApp, vTenant, storeVars, concVars, cryptoVars, keyVars>>

ValidateTen ==
    /\ vKind = "tenant"
    /\ vErr = "pending"
    /\ vErr' = validateTenant(vTenant)
    /\ UNCHANGED <<vKind, vApp, vTenant, storeVars, concVars, cryptoVars, keyVars>>

NextV == ValidateApp \/ ValidateTen

SpecV == InitV /\ [][NextV]_vars

-----------------------------------------------------------------------------
(* SpecC: the Store's operations step by step, run by concurrent callers *)

Callers == {"c1", "c2"}

MutatingOps ==
    {"AddApplication", "UpdateApplication", "DeleteApplication", "AddTenant",
     "DeleteTenant"}
ReadOps ==
    {"GetApplication", "GetTenant", "GetEnabledApplications",
     "GetApplicationsByTenant", "GetAllTenants"}

\* The arguments of the concurrent callers.
CAppInputs ==
    {Application("", "t1", "Web", "websdk", TRUE, "client", "secret", "api.example", "", "", ""),
     Application("a1", "t1", "Web", "websdk", TRUE, "client", "secret", "api.example", "", "", ""),
     Application("a1", "", "Saml", "saml", FALSE, "", "", "api.example", "urn:sp", "https://sp/acs", ""),
     Application("", "", "Web", "websdk", TRUE, "", "", "api.example", "urn:sp", "https://sp/acs", "")}
CTenantInputs ==
    {Tenant("t1", "Tenant", "key", "secret", "api.example"),
     Tenant("", "Tenant", "key", "", "api.example")}
CAppIDs == {"a1", "u1"}
CTenantIDs == {"t1", "u1"}

\* The calls a caller may make: operation, identifier argument, record argument.
MutatingCalls ==
    {<<"AddApplication", "", a>> : a \in CAppInputs}
    \cup {<<"UpdateApplication", id, a>> : id \in CAppIDs, a \in CAppInputs}
    \cup {<<"DeleteApplication", id, ZeroApplication>> : id \in CAppIDs}
    \cup {<<"AddTenant", "", t>> : t \in CTenantInputs}
    \cup {<<"DeleteTenant", id, ZeroApplication>> : id \in CTenantIDs}
ReadCalls ==
    {<<"GetApplication", id, ZeroApplication>> : id \in CAppIDs}
    \cup {<<"GetTenant", "t1", ZeroApplication>>,
          <<"GetEnabledApplications", "", ZeroApplication>>,
          <<"GetApplicationsByTenant", "t1", ZeroApplication>>,
          <<"GetAllTenants", "", ZeroApplication>>}

\* No *Application: the pointer of a caller that holds none.
NoPointer == [slot |-> 0, live |-> FALSE, app |-> ZeroApplication]

IdleCall ==
    [op |-> "none", id |-> "", rec |-> ZeroApplication, io |-> "ok", err |-> nil,
     index |-> 0, n |-> 0, result |-> <<>>, expect |-> <<>>, pre |-> <<>>,
     ptr |-> NoPointer]

canLockAlways(m) == TRUE

\* c.mu.Lock() returns when no caller holds the lock, for writing or reading.
canLock(m) == m.writer = "none" /\ m.readers = {}

canRLockAlways(m) == TRUE

\* c.mu.RLock() returns when no caller holds the lock for writing.
canRLock(m) == m.writer = "none"

\* The operation run on a document d = [Tenants, Applications, file] as one
\* step: what the calls yield when they run one after another.
ResultOn(d, op, id, rec, uuid, io) ==
    CASE op = "AddApplication" ->
            AddApplicationResult(d.Tenants, d.Applications, d.file, rec, uuid, io)
      [] op = "UpdateApplication" ->
            UpdateApplicationResult(d.Tenants, d.Applications, d.file, id, rec, io)
      [] op = "DeleteApplication" ->
            DeleteApplicationResult(d.Tenants, d.Applications, d.file, id, io)
      [] op = "AddTenant" ->
            AddTenantResult(d.Tenants, d.Applications, d.file, rec, uuid, io)
      [] op = "DeleteTenant" ->
            DeleteTenantResult(d.Tenants, d.Applications, d.file, id, io)

\* The list a read operation ranges over.
listOf(op, T, A) == IF op \in {"GetTenant", "GetAllTenants"} THEN T ELSE A

\* What a read operation answers on the lists T and A.
Answer(op, id, T, A) ==
    CASE op = "GetApplication" ->
            IF \E i \in 1..Len(A) : A[i].ID = id
            THEN LET i == CHOOSE k \in 1..Len(A) :
                            A[k].ID = id /\ \A j \in 1..(k - 1) : A[j].ID # id
                 IN <<"found", i, A[i]>>
            ELSE <<"error", "application with id '" \o id \o "' not found">>
      [] op = "GetTenant" ->
            IF \E i \in 1..Len(T) : T[i].ID = id
            THEN LET i == CHOOSE k \in 1..Len(T) :
                            T[k].ID = id /\ \A j \in 1..(k - 1) : T[j].ID # id
                 IN <<"found", i, T[i]>>
            ELSE <<"error", "tenant with id '" \o id \o "' not found">>
      [] op = "GetEnabledApplications" -> SelectSeq(A, LAMBDA a : a.Enabled)
      [] op = "GetApplicationsByTenant" -> SelectSeq(A, LAMBDA a : a.TenantID = id)
      [] op = "GetAllTenants" -> T

firstStep(op) ==
    IF op \in {"AddApplication", "UpdateApplication", "AddTenant"}
    THEN "validate" ELSE "lookup"

nextStepSkipsTenant(op, step) ==
    CASE step = "validate" -> "lookup"
      [] step = "lookup" -> IF op = "AddTenant" THEN "mutateTenants" ELSE "mutateApps"
      [] step = "mutateApps" -> "save"
      [] step = "mutateTenants" -> "save"
      [] step = "save" -> "unlock"

\* The order of the statements of the mutating operations.
nextStep(op, step) ==
    CASE step = "validate" -> "lookup"
      [] step = "lookup" -> IF op = "AddTenant" THEN "mutateTenants" ELSE "mutateApps"
      [] step = "mutateApps" -> IF op = "DeleteTenant" THEN "mutateTenants" ELSE "save"
      [] step = "mutateTenants" -> "save"
      [] step = "save" -> "unlock"

WriterSteps == {"validate", "lookup", "mutateApps", "mutateTenants", "save", "unlock"}
ReaderSteps == {"scan", "runlock"}

InitC ==
    /\ Tenants = <<>>
    /\ Applications = <<>>
    /\ file = [data |-> Marshal(<<>>, <<>>), complete |-> TRUE]
    /\ last = [op |-> "LoadConfig", id |-> "", err |-> nil, saved |-> FALSE,
               before |-> <<0, 0>>]
    /\ ioFailures = 0
    /\ mu = [writer |-> "none", readers |-> {}]
    /\ pc = [c \in Callers |-> "idle"]
    /\ call = [c \in Callers |-> IdleCall]
    /\ serial = [Tenants |-> <<>>, Applications |-> <<>>,
                 file |-> [data |-> Marshal(<<>>, <<>>), complete |-> TRUE]]
    /\ array = <<>>
    /\ InitIdleValidate
    /\ InitIdleKey
    /\ InitIdleCrypto

\* A caller enters a mutating operation: c.mu.Lock(); defer c.mu.Unlock().
Lock ==
    \E c \in Callers, m \in MutatingCalls, uuid \in UUIDs :
        LET op == m[1]
            reaches == ResultOn(serial, op, m[2], m[3], uuid, "ok").saved
        IN \E io \in (IF reaches /\ ioFailures < MaxIOFailures THEN IOResults ELSE {"ok"}) :
            LET r == ResultOn(serial, op, m[2], m[3], uuid, io)
                rec == IF op \in {"AddApplication", "AddTenant"} /\ m[3].ID = ""
                       THEN [m[3] EXCEPT !.ID = uuid] ELSE m[3]
            IN /\ pc[c] = "idle"
               /\ canLock(mu)
               /\ op = "AddApplication" => Len(Applications) < MaxApps
               /\ op = "AddTenant" => Len(Tenants) < MaxTenants
               /\ mu' = [mu EXCEPT !.writer = c]
               /\ pc' = [pc EXCEPT ![c] = firstStep(op)]
               /\ call' = [call EXCEPT ![c] =
                    [IdleCall EXCEPT !.op = op,
                                     !.id = IF op \in {"AddApplication", "AddTenant"}
                                            THEN rec.ID ELSE m[2],
                                     !.rec = rec, !.io = io, !.expect = r.err,
                                     !.pre = serial]]
               /\ serial' = [Tenants |-> r.Tenants, Applications |-> r.Applications,
                             file |-> r.file]
               /\ UNCHANGED <<Tenants, Applications, file, last, ioFailures, array,
                              validateVars, keyVars, cryptoVars>>

\* Leaving a step: with an error the operation returns, which runs the deferred
\* Unlock.
Proceed(c, step, err) ==
    /\ pc' = [pc EXCEPT ![c] = IF err = nil THEN nextStep(call[c].op, step)
                                ELSE "unlock"]

\* if err := validateApplication(&app); err != nil { return err }
Validate ==
    \E c \in Callers :
        LET err == IF call[c].op = "AddTenant" THEN validateTenant(call[c].rec)
                   ELSE validateApplication(call[c].rec)
        IN /\ pc[c] = "validate"
           /\ Proceed(c, "validate", err)
           /\ call' = [call EXCEPT ![c].err = err]
           /\ UNCHANGED <<Tenants, Applications, file, last, ioFailures, mu, serial, array,
                          validateVars, keyVars, cryptoVars>>

\* The loops that look the identifier up in c.Applications or c.Tenants.
Lookup ==
    \E c \in Callers :
        LET op == call[c].op
            id == call[c].id
            err == CASE op = "AddApplication" ->
                            IF exists(Applications, id)
                            THEN alreadyExists("application", id) ELSE nil
                     [] op = "AddTenant" ->
                            IF exists(Tenants, id)
                            THEN alreadyExists("tenant", id) ELSE nil
                     [] op = "DeleteTenant" ->
                            IF indexOf(Tenants, id) = 0
                            THEN notFound("tenant", id) ELSE nil
                     [] OTHER ->
                            IF indexOf(Applications, id) = 0
                            THEN notFound("application", id) ELSE nil
            index == CASE op = "DeleteTenant" -> indexOf(Tenants, id)
                       [] op \in {"UpdateApplication", "DeleteApplication"} ->
                            indexOf(Applications, id)
                       [] OTHER -> 0
        IN /\ pc[c] = "lookup"
           /\ Proceed(c, "lookup", err)
           /\ call' = [call EXCEPT ![c].err = err, ![c].index = index]
           /\ UNCHANGED <<Tenants, Applications, file, last, ioFailures, mu, serial, array,
                          validateVars, keyVars, cryptoVars>>

\* The assignment to c.Applications.
MutateApplications ==
    \E c \in Callers :
        LET op == call[c].op
            i == call[c].index
        IN /\ pc[c] = "mutateApps"
           /\ Applications' =
                CASE op = "AddApplication" -> Append(Applications, call[c].rec)
                  [] op = "UpdateApplication" ->
                        IF i \in 1..Len(Applications)
                        THEN [Applications EXCEPT ![i] = updated(call[c].id, call[c].rec)]
                        ELSE Applications
                  [] op = "DeleteApplication" ->
                        IF i \in 1..Len(Applications)
                        THEN removeAt(Applications, i) ELSE Applications
                  [] op = "DeleteTenant" -> remainingApps(Applications, call[c].id)
           /\ Proceed(c, "mutateApps", nil)
           /\ UNCHANGED <<Tenants, file, last, ioFailures, mu, call, serial, array,
                          validateVars, keyVars, cryptoVars>>

\* The assignment to c.Tenants.
MutateTenants ==
    \E c \in Callers :
        LET op == call[c].op
            i == call[c].index
        IN /\ pc[c] = "mutateTenants"
           /\ Tenants' =
                CASE op = "AddTenant" -> Append(Tenants, call[c].rec)
                  [] op = "DeleteTenant" ->
                        IF i \in 1..Len(Tenants)
                        THEN removeAt(Tenants, i) ELSE Tenants
           /\ Proceed(c, "mutateTenants", nil)
           /\ UNCHANGED <<Applications, file, last, ioFailures, mu, call, serial, array,
                          validateVars, keyVars, cryptoVars>>

\* return c.save()
Save ==
    \E c \in Callers :
        LET s == save(Tenants, Applications, file, call[c].io)
        IN /\ pc[c] = "save"
           /\ file' = s.file
           /\ call' = [call EXCEPT ![c].err = s.err]
           /\ ioFailures' = IF s.err = nil THEN ioFailures ELSE ioFailures + 1
           /\ pc' = [pc EXCEPT ![c] = nextStep(call[c].op, "save")]
           /\ UNCHANGED <<Tenants, Applications, last, mu, serial, array, validateVars, keyVars, cryptoVars>>

\* The deferred c.mu.Unlock(): the operation has returned call[c].err.
Unlock ==
    \E c \in Callers :
        /\ pc[c] = "unlock"
        /\ mu' = [mu EXCEPT !.writer = "none"]
        /\ pc' = [pc EXCEPT ![c] = "idle"]
        /\ call' = [call EXCEPT ![c] = IdleCall]
        /\ UNCHANGED <<Tenants, Applications, file, last, ioFailures, serial, array,
                       validateVars, keyVars, cryptoVars>>

selectedWhenDisabled(op, e, id) ==
    CASE op = "GetEnabledApplications" -> TRUE
      [] op = "GetApplicationsByTenant" -> e.TenantID = id
      [] op = "GetAllTenants" -> TRUE
      [] OTHER -> FALSE

\* The test in the loop of a read operation that returns a list:
\* if app.Enabled, if app.TenantID == tenantID.
selected(op, e, id) ==
    CASE op = "GetEnabledApplications" -> e.Enabled
      [] op = "GetApplicationsByTenant" -> e.TenantID = id
      [] op = "GetAllTenants" -> TRUE
      [] OTHER -> FALSE

\* A caller enters a read operation: c.mu.RLock(); defer c.mu.RUnlock(). The
\* range statement takes the length of the list once.
RLock ==
    \E c \in Callers, r \in ReadCalls :
        /\ pc[c] = "idle"
        /\ canRLock(mu)
        /\ mu' = [mu EXCEPT !.readers = @ \cup {c}]
        /\ pc' = [pc EXCEPT ![c] = "scan"]
        /\ call' = [call EXCEPT ![c] =
                [IdleCall EXCEPT !.op = r[1], !.id = r[2], !.index = 1,
                                 !.n = Len(listOf(r[1], Tenants, Applications)),
                                 !.expect = Answer(r[1], r[2], serial.Tenants,
                                                   serial.Applications)]]
        /\ UNCHANGED <<Tenants, Applications, file, last, ioFailures, serial, array,
                       validateVars, keyVars, cryptoVars>>

\* One iteration of the loop of a read operation, or its end.
Scan ==
    \E c \in Callers :
        LET op == call[c].op
            i == call[c].index
            list == listOf(op, Tenants, Applications)
            atEnd == i > call[c].n \/ i > Len(list)
            e == list[i]
            byID == op \in {"GetApplication", "GetTenant"}
            takes == selected(op, e, call[c].id)
        IN /\ pc[c] = "scan"
           /\ IF atEnd
              THEN /\ pc' = [pc EXCEPT ![c] = "runlock"]
                   /\ call' = [call EXCEPT ![c].result =
                        IF byID
                        THEN <<"error", notFound(IF op = "GetTenant" THEN "tenant"
                                                 ELSE "application", call[c].id)>>
                        ELSE @]
              ELSE IF byID /\ e.ID = call[c].id
              THEN /\ pc' = [pc EXCEPT ![c] = "runlock"]
                   /\ call' = [call EXCEPT ![c].result = <<"found", i, e>>]
              ELSE /\ pc' = pc
                   /\ call' = [call EXCEPT ![c].index = i + 1,
                                           ![c].result = IF takes THEN Append(@, e) ELSE @]
           /\ UNCHANGED <<Tenants, Applications, file, last, ioFailures, mu, serial, array,
                          validateVars, keyVars, cryptoVars>>

\* The deferred c.mu.RUnlock(): the operation has returned call[c].result.
RUnlock ==
    \E c \in Callers :
        /\ pc[c] = "runlock"
        /\ mu' = [mu EXCEPT !.readers = @ \ {c}]
        /\ pc' = [pc EXCEPT ![c] = "idle"]
        /\ call' = [call EXCEPT ![c] = IdleCall]
        /\ UNCHANGED <<Tenants, Applications, file, last, ioFailures, serial, array,
                       validateVars, keyVars, cryptoVars>>

NextC ==
    \/ Lock
    \/ Validate
    \/ Lookup
    \/ MutateApplications
    \/ MutateTenants
    \/ Save
    \/ Unlock
    \/ RLock
    \/ Scan
    \/ RUnlock

SpecC == InitC /\ [][NextC]_vars

-----------------------------------------------------------------------------
(* The envelope cipher (package crypto) *)

\* A string is a sequence of symbols: a run of characters, [ch |-> c], or
\* the base64 text of a byte string, [b64 |-> bytes]. The runs are single
\* characters, the fourteen characters in front of the comma of the prefix,
\* and Quad, four characters of the base64 alphabet (three bytes).
Ch(c) == [ch |-> c]
Comma == Ch(",")
Bracket == Ch("]")
Quad == Ch("AAAA")
Scheme == Ch("ENC[AES256_GCM")

\* const EncryptedFieldPrefix = "ENC[AES256_GCM,"
EncryptedFieldPrefix == <<Scheme, Comma>>

\* Byte strings: a nonce read from rand.Reader, the output of gcm.Seal
\* (ciphertext and tag), and any other n bytes.
Nonce(n) == [nonce |-> n]
Sealed(key, nonce, plaintext) == [key |-> key, nonce |-> nonce, pt |-> plaintext]
Raw(n) == [raw |-> n]

\* gcm.NonceSize()
NonceSize == 12

\* gcm.Overhead(): the tag Seal appends to the ciphertext
TagSize == 16

IsB64(sym) == "b64" \in DOMAIN sym

RECURSIVE ByteLen(_), Classes(_), StrLen(_)

\* len(b) of a byte string.
ByteLen(b) ==
    IF "pt" \in DOMAIN b THEN StrLen(b.pt) + TagSize
    ELSE IF "nonce" \in DOMAIN b THEN NonceSize
    ELSE b.raw

\* The characters of a symbol as base64.StdEncoding sees them: "a" a
\* character of its alphabet, "=" the padding character, "x" any other.
\* The text of n bytes is 4 * ceil(n / 3) characters, padded at the end.
Classes(sym) ==
    IF IsB64(sym)
    THEN LET n == ByteLen(sym.b64)
             chars == 4 * ((n + 2) \div 3)
             pad == (3 - (n % 3)) % 3
         IN [i \in 1..chars |-> IF i <= chars - pad THEN "a" ELSE "="]
    ELSE IF sym = Scheme
    THEN <<"a", "a", "a", "x", "a", "a", "a", "a", "a", "a", "x", "a", "a", "a">>
    ELSE IF sym = Quad THEN <<"a", "a", "a", "a">>
    ELSE IF sym.ch \in {",", "]", "[", "_"} THEN <<"x">>
    ELSE IF sym.ch = "=" THEN <<"=">>
    ELSE <<"a">>

\* len(s) of a string.
StrLen(s) == IF s = <<>> THEN 0 ELSE Len(Classes(s[1])) + StrLen(Tail(s))

RECURSIVE ClassesOf(_)
ClassesOf(s) == IF s = <<>> THEN <<>> ELSE Classes(s[1]) \o ClassesOf(Tail(s))

\* strings.HasPrefix
HasPrefix(s, prefix) ==
    Len(s) >= Len(prefix) /\ SubSeq(s, 1, Len(prefix)) = prefix

\* func deriveKey(password, salt []byte) []byte
deriveKey(password, salt) == [pbkdf2 |-> password, salt |-> salt]

\* func NewCryptoManagerWithKey(password string) *CryptoManager
NewCryptoManagerWithKey(password) ==
    [masterKey |-> deriveKey(password, "uet-salt")]

\* data, err := os.ReadFile(keyPath): the error of the open when there is no
\* file at keyPath or the file may not be read, else the bytes read through
\* the descriptor.
readKey(there, readable, data) ==
    IF there /\ readable THEN [data |-> data, err |-> nil]
    ELSE IF there THEN [data |-> "", err |-> "permission denied"]
    ELSE [data |-> "", err |-> "no such file or directory"]

\* func NewCryptoManager() (*CryptoManager, error), as a function of what the
\* call finds: the value of UET_MASTER_KEY, what os.ReadFile returns, the
\* 32 bytes rand.Reader gives ("" stands for a read that fails) and the
\* outcome of os.WriteFile.  It yields the manager and the error.
NewCryptoManager(getenv, read, random, io) ==
    IF getenv # ""
    THEN [cm |-> [masterKey |-> deriveKey(getenv, "uet-salt")], err |-> nil]
    ELSE IF read.err = nil
    THEN [cm |-> [masterKey |-> deriveKey(read.data, "uet-salt")], err |-> nil]
    ELSE IF random = ""
    THEN [cm |-> "none", err |-> "failed to generate key: unexpected EOF"]
    ELSE IF io # "ok"
    THEN [cm |-> "none", err |-> "failed to save key file: permission denied"]
    ELSE [cm |-> [masterKey |-> deriveKey(random, "uet-salt")], err |-> nil]

\* base64.StdEncoding.EncodeToString
EncodeToString(b) == <<[b64 |-> b]>>

\* Whether the four characters of cs after the offset p are of the alphabet.
FullQuantum(cs, p) ==
    p + 4 <= Len(cs) /\ \A j \in 1..4 : cs[p + j] = "a"

\* The least member of a set of numbers.
Least(S) == CHOOSE q \in S : \A m \in S : q <= m

\* The offset of the first quantum of cs that is not four characters of the
\* alphabet; Len(cs) when they all are.
FirstPartial(cs) == Least({q \in 0..Len(cs) : q % 4 = 0 /\ ~FullQuantum(cs, q)})

\* The quantum at offset p, whose first k characters are of the alphabet
\* and whose next is not, or is past the end of the text.
Quantum(cs, p, k, left) ==
    IF left = 0 THEN [n |-> 3 * (p \div 4), bad |-> 0 - 1]
    ELSE IF k >= left THEN [n |-> 0, bad |-> p]
    ELSE IF cs[p + k + 1] = "x" \/ k < 2 THEN [n |-> 0, bad |-> p + k]
    ELSE IF k = 2 /\ left = 3 THEN [n |-> 0, bad |-> Len(cs)]
    ELSE IF k = 2 /\ cs[p + 4] # "=" THEN [n |-> 0, bad |-> p + 2]
    ELSE IF left > 4 THEN [n |-> 0, bad |-> p + 4]
    ELSE [n |-> 3 * (p \div 4) + k - 1, bad |-> 0 - 1]

LastQuantum(cs, p) ==
    Quantum(cs, p,
            Least({j \in 0..3 : j >= Len(cs) - p \/ cs[p + j + 1] # "a"}),
            Len(cs) - p)

\* The quanta of base64.StdEncoding.Decode over the text cs: the bytes
\* decoded and the offset CorruptInputError names, -1 when the text is
\* legal. Four characters give three bytes; the quanta are read up to the
\* first, at offset p, that is not four characters of the alphabet, which
\* may be padded with "==" after two characters or "=" after three and
\* must end the text.
DecodeQuanta(cs) == LastQuantum(cs, FirstPartial(cs))

\* base64.StdEncoding.DecodeString: the text of one byte string gives it
\* back, other legal text gives the bytes it stands for.
Decoded(s, d) ==
    IF d.bad >= 0
    THEN [bytes |-> Raw(0),
          err |-> "illegal base64 data at input byte " \o ToString(d.bad)]
    ELSE IF Len(s) = 1 /\ IsB64(s[1]) THEN [bytes |-> s[1].b64, err |-> nil]
    ELSE [bytes |-> Raw(d.n), err |-> nil]

DecodeString(s) == Decoded(s, DecodeQuanta(ClassesOf(s)))

\* The first index at or after from where s holds sym; 0 when there is none.
IndexFrom(s, sym, from) ==
    LET I == {j \in from..Len(s) : s[j] = sym}
    IN IF I = {} THEN 0 ELSE CHOOSE j \in I : \A k \in I : j <= k

\* Whether encryptedFieldRegex matches s starting at index i:
\* ENC\[AES256_GCM,([^,]+),([^\]]+)\]
MatchAt(s, i) ==
    /\ i < Len(s)
    /\ s[i] = Scheme
    /\ s[i + 1] = Comma
    /\ LET c == IndexFrom(s, Comma, i + 2)
       IN /\ c > i + 2
          /\ IndexFrom(s, Bracket, c + 1) > c + 1

\* encryptedFieldRegex.FindStringSubmatch(s): the leftmost match and its two
\* groups, or nothing.
FindStringSubmatch(s) ==
    LET I == {i \in 1..Len(s) : MatchAt(s, i)}
    IN IF I = {} THEN <<>>
       ELSE LET i == CHOOSE j \in I : \A k \in I : j <= k
                c == IndexFrom(s, Comma, i + 2)
                r == IndexFrom(s, Bracket, c + 1)
            IN <<SubSeq(s, i, r), SubSeq(s, i + 2, c - 1), SubSeq(s, c + 1, r - 1)>>

\* gcm.Seal(nil, nonce, plaintext, nil)
Seal(key, nonce, plaintext) == Sealed(key, nonce, plaintext)

\* The panic of gcm.Open. Nothing in the package recovers it: a result
\* whose err is OpenPanic stands for a call that panicked and did not return.
OpenPanic == "panic: crypto/cipher: incorrect nonce length given to GCM"

OpenIgnoresKey(key, nonce, ciphertext) ==
    IF ByteLen(nonce) # NonceSize
    THEN [plaintext |-> <<>>, err |-> OpenPanic]
    ELSE IF "pt" \in DOMAIN ciphertext /\ ciphertext.nonce = nonce
    THEN [plaintext |-> ciphertext.pt, err |-> nil]
    ELSE [plaintext |-> <<>>, err |-> "failed to decrypt: cipher: message authentication failed"]

\* gcm.Open(nil, nonce, ciphertext, nil): panics on a nonce of the wrong
\* length, and opens only what Seal made with this key and this nonce. The
\* error is given as Decrypt wraps it.
Open(key, nonce, ciphertext) ==
    IF ByteLen(nonce) # NonceSize
    THEN [plaintext |-> <<>>, err |-> OpenPanic]
    ELSE IF "pt" \in DOMAIN ciphertext /\ ciphertext.key = key
            /\ ciphertext.nonce = nonce
    THEN [plaintext |-> ciphertext.pt, err |-> nil]
    ELSE [plaintext |-> <<>>, err |-> "failed to decrypt: cipher: message authentication failed"]

\* What Encrypt and Decrypt return: (string, error).
Returned(out, err) == [out |-> out, err |-> err]

EncryptFixedNonce(cm, plaintext, n) ==
    IF plaintext = <<>> THEN Returned(<<>>, nil)
    ELSE LET nonce == Nonce(0)
             ciphertext == Seal(cm.masterKey, nonce, plaintext)
         IN Returned(EncryptedFieldPrefix \o EncodeToString(nonce) \o <<Comma>>
                        \o EncodeToString(ciphertext) \o <<Bracket>>, nil)

EncryptSwapsFields(cm, plaintext, n) ==
    IF plaintext = <<>> THEN Returned(<<>>, nil)
    ELSE LET nonce == Nonce(n)
             ciphertext == Seal(cm.masterKey, nonce, plaintext)
         IN Returned(EncryptedFieldPrefix \o EncodeToString(ciphertext) \o <<Comma>>
                        \o EncodeToString(nonce) \o <<Bracket>>, nil)

\* func (cm *CryptoManager) Encrypt(plaintext string) (string, error)
\* n is what io.ReadFull(rand.Reader, nonce) reads.
\* A negative n stands for a read that fails.
Encrypt(cm, plaintext, n) ==
    IF plaintext = <<>> THEN Returned(<<>>, nil)
    ELSE IF n < 0 THEN Returned(<<>>, "failed to generate nonce: unexpected EOF")
    ELSE LET nonce == Nonce(n)
             ciphertext == Seal(cm.masterKey, nonce, plaintext)
         IN Returned(EncryptedFieldPrefix \o EncodeToString(nonce) \o <<Comma>>
                        \o EncodeToString(ciphertext) \o <<Bracket>>, nil)

\* The part of Decrypt after the prefix test. A panic of gcm.Open unwinds
\* through it.
Parse(cm, encryptedField) ==
    LET matches == FindStringSubmatch(encryptedField)
    IN IF Len(matches) # 3 THEN Returned(<<>>, "invalid encrypted field format")
       ELSE LET nonce == DecodeString(matches[2])
                ciphertext == DecodeString(matches[3])
            IN IF nonce.err # nil
               THEN Returned(<<>>, "failed to decode nonce: " \o nonce.err)
               ELSE IF ciphertext.err # nil
               THEN Returned(<<>>, "failed to decode ciphertext: " \o ciphertext.err)
               ELSE LET opened == Open(cm.masterKey, nonce.bytes, ciphertext.bytes)
                    IN Returned(opened.plaintext, opened.err)

DecryptAlwaysParses(cm, encryptedField) == Parse(cm, encryptedField)

\* func (cm *CryptoManager) Decrypt(encryptedField string) (string, error)
Decrypt(cm, encryptedField) ==
    IF ~HasPrefix(encryptedField, EncryptedFieldPrefix)
    THEN Returned(encryptedField, nil)
    ELSE Parse(cm, encryptedField)

IsEncryptedNever(field) == FALSE

\* func IsEncrypted(field string) bool
IsEncrypted(field) == HasPrefix(field, EncryptedFieldPrefix)

-----------------------------------------------------------------------------
(* The sensitive-field policy (package crypto) *)

sensitiveFields == <<"client_secret", "admin_api_secret", "signing_key">>

containsAlways(slice, item) == TRUE

\* func contains(slice []string, item string) bool
contains(slice, item) == \E i \in 1..Len(slice) : slice[i] = item

\* The values of a map[string]interface{}: a string, or something else.
Str(s) == [str |-> s]
NotStr(v) == [other |-> v]
IsString(value) == "str" \in DOMAIN value

\* The loop of EncryptSensitiveFields: order is the order in which range
\* visits the keys, ns[key] the nonce rand.Reader gives for that key.
RECURSIVE EncryptLoop(_, _, _, _)
EncryptLoop(cm, d, order, ns) ==
    IF order = <<>> THEN [data |-> d, err |-> nil]
    ELSE LET key == Head(order)
             value == d[key]
         IN IF contains(sensitiveFields, key) /\ IsString(value)
               /\ value.str # <<>> /\ ~IsEncrypted(value.str)
            THEN LET encrypted == Encrypt(cm, value.str, ns[key])
                 IN IF encrypted.err # nil
                    THEN [data |-> d,
                          err |-> "failed to encrypt " \o key \o ": " \o encrypted.err]
                    ELSE EncryptLoop(cm, [d EXCEPT ![key] = Str(encrypted.out)],
                                     Tail(order), ns)
            ELSE EncryptLoop(cm, d, Tail(order), ns)

\* func (cm *CryptoManager) EncryptSensitiveFields(data map[string]interface{}) error
EncryptSensitiveFields(cm, d, order, ns) == EncryptLoop(cm, d, order, ns)

\* The loop of DecryptSensitiveFields, which stops at the first field that
\* fails and keeps what it has decrypted so far. When cm.Decrypt panics the
\* loop ends there and nothing wraps the panic.
\* What leaves the loop of DecryptSensitiveFields when cm.Decrypt of the
\* field key has failed: the error, wrapped with the name of the field, or
\* the panic of gcm.Open, which nothing recovers.
raised(key, err) ==
    IF err = OpenPanic THEN OpenPanic
    ELSE "failed to decrypt " \o key \o ": " \o err

RECURSIVE DecryptLoop(_, _, _)
DecryptLoop(cm, d, order) ==
    IF order = <<>> THEN [data |-> d, err |-> nil]
    ELSE LET key == Head(order)
             value == d[key]
         IN IF contains(sensitiveFields, key) /\ IsString(value)
               /\ IsEncrypted(value.str)
            THEN LET decrypted == Decrypt(cm, value.str)
                 IN IF decrypted.err # nil
                    THEN [data |-> d, err |-> raised(key, decrypted.err)]
                    ELSE DecryptLoop(cm, [d EXCEPT ![key] = Str(decrypted.out)],
                                     Tail(order))
            ELSE DecryptLoop(cm, d, Tail(order))

DecryptSensitiveFieldsSkipsSigningKey(cm, d, order) ==
    DecryptLoop(cm, d, SelectSeq(order, LAMBDA k : k # "signing_key"))

\* func (cm *CryptoManager) DecryptSensitiveFields(data map[string]interface{}) error
DecryptSensitiveFields(cm, d, order) == DecryptLoop(cm, d, order)

-----------------------------------------------------------------------------
(* SpecE: the cipher applied to strings; SpecF: the policy applied to records *)

MaxLen == 2      \* symbols in a string handed to the cipher
MaxCalls == 3    \* calls of the cipher made in one run
MaxFieldCalls == 2    \* calls of the policy made on one record

Passwords == {"A", "B"}    \* what the managers' keys are derived from

\* What rand.Reader gives next: bytes it has not given before.
Fresh(used, i) ==
    LET top == IF used = {} THEN 0 ELSE CHOOSE n \in used : \A m \in used : m <= n
    IN top + i

Symbols == {Ch("s"), Comma, Bracket, Scheme}

RECURSIVE StringsUpTo(_)
StringsUpTo(n) ==
    IF n = 0 THEN {<<>>}
    ELSE LET shorter == StringsUpTo(n - 1)
         IN shorter \cup {Append(s, c) : s \in shorter, c \in Symbols}

\* The envelope of the plaintext s with text after its ciphertext.
Padded ==
    LET e == Encrypt(NewCryptoManagerWithKey("A"), <<Ch("s")>>, 0).out
    IN SubSeq(e, 1, Len(e) - 1) \o <<Quad, Bracket>>

\* Strings in the shape of an envelope that Encrypt did not make: a nonce of
\* three bytes, a nonce of twelve bytes with a ciphertext nobody sealed,
\* text that is not base64, an envelope after other text, the prefix before
\* text without a comma, the prefix twice, the prefix within the nonce and
\* within the ciphertext, and base64 text after the padding of a ciphertext.
Forged ==
    {EncryptedFieldPrefix \o <<Quad, Comma, Quad, Bracket>>,
     EncryptedFieldPrefix \o <<Quad, Quad, Quad, Quad, Comma, Quad, Bracket>>,
     EncryptedFieldPrefix \o <<Ch("s"), Comma, Ch("s"), Bracket>>,
     <<Ch("s")>> \o EncryptedFieldPrefix \o <<Quad, Comma, Quad, Bracket>>,
     EncryptedFieldPrefix \o <<Ch("s"), Bracket>>,
     EncryptedFieldPrefix \o EncryptedFieldPrefix \o <<Ch("s"), Bracket>>,
     EncryptedFieldPrefix \o <<Ch("s")>> \o EncryptedFieldPrefix \o <<Ch("s"), Bracket>>,
     EncryptedFieldPrefix \o EncryptedFieldPrefix \o <<Comma, Ch("s"), Bracket>>,
     Padded}

Texts == StringsUpTo(MaxLen) \cup Forged

\* The strings a call may be given: the input, or what an earlier call returned.
Known == {text} \cup {log[i].out : i \in 1..Len(log)}

InitE ==
    /\ text \in Texts
    /\ fields = <<>>
    /\ log = <<>>
    /\ rand = {}
    /\ EncryptionEnabled = FALSE
    /\ cryptoManager = "none"
    /\ InitIdleStore
    /\ InitIdleValidate
    /\ InitIdleKey
    /\ InitIdleConc

EncryptText ==
    /\ Len(log) < MaxCalls
    /\ \E password \in Passwords, plaintext \in Known :
        LET n == Fresh(rand, 1)
            r == Encrypt(NewCryptoManagerWithKey(password), plaintext, n)
        IN /\ log' = Append(log, [op |-> "Encrypt", key |-> password,
                                  in |-> plaintext, out |-> r.out, err |-> r.err])
           /\ rand' = IF plaintext = <<>> THEN rand ELSE rand \cup {n}
    /\ UNCHANGED <<text, fields, EncryptionEnabled, cryptoManager,
                   storeVars, validateVars, keyVars, concVars>>

DecryptText ==
    /\ Len(log) < MaxCalls
    /\ \E password \in Passwords, encryptedField \in Known :
        LET r == Decrypt(NewCryptoManagerWithKey(password), encryptedField)
        IN log' = Append(log, [op |-> "Decrypt", key |-> password,
                               in |-> encryptedField, out |-> r.out, err |-> r.err])
    /\ UNCHANGED <<text, fields, rand, EncryptionEnabled, cryptoManager,
                   storeVars, validateVars, keyVars, concVars>>

NextE == EncryptText \/ DecryptText

SpecE == InitE /\ [][NextE]_vars

\* The records handed to the policy: the three sensitive keys and one other
\* key, each absent or holding a value.
FieldNames == <<"client_secret", "admin_api_secret", "signing_key", "name">>

FieldValues(key) ==
    IF key \in {"client_secret", "signing_key"}
    THEN {Str(<<>>), Str(<<Ch("s")>>), Str(EncryptedFieldPrefix), NotStr(42)}
    ELSE {Str(<<Ch("s")>>), Str(EncryptedFieldPrefix)}

Records ==
    UNION {{r \in [D -> UNION {FieldValues(FieldNames[i]) : i \in 1..Len(FieldNames)}] :
                \A k \in D : r[k] \in FieldValues(k)} :
           D \in SUBSET {FieldNames[i] : i \in 1..Len(FieldNames)}}

\* The orders in which range may visit the keys of a map.
RangeOrders(d) ==
    {o \in [1..Cardinality(DOMAIN d) -> DOMAIN d] :
        \A i, j \in DOMAIN o : i # j => o[i] # o[j]}

\* The nonce rand.Reader gives when the value of key is encrypted.
NonceFor(used, key) ==
    Fresh(used, CHOOSE i \in 1..Len(FieldNames) : FieldNames[i] = key)

InitF ==
    /\ fields \in Records
    /\ text = <<>>
    /\ log = <<>>
    /\ rand = {}
    /\ EncryptionEnabled = FALSE
    /\ cryptoManager = "none"
    /\ InitIdleStore
    /\ InitIdleValidate
    /\ InitIdleKey
    /\ InitIdleConc

EncryptFields ==
    /\ Len(log) < MaxFieldCalls
    /\ \E password \in Passwords, order \in RangeOrders(fields) :
        LET ns == [k \in DOMAIN fields |-> NonceFor(rand, k)]
            r == EncryptSensitiveFields(NewCryptoManagerWithKey(password),
                                        fields, order, ns)
        IN /\ fields' = r.data
           /\ log' = Append(log, [op |-> "EncryptSensitiveFields", key |-> password,
                                  in |-> fields, out |-> r.data, err |-> r.err])
           /\ rand' = rand \cup {ns[k] : k \in {x \in DOMAIN fields : r.data[x] # fields[x]}}
    /\ UNCHANGED <<text, EncryptionEnabled, cryptoManager,
                   storeVars, validateVars, keyVars, concVars>>

DecryptFields ==
    /\ Len(log) < MaxFieldCalls
    /\ \E password \in Passwords, order \in RangeOrders(fields) :
        LET r == DecryptSensitiveFields(NewCryptoManagerWithKey(password),
                                        fields, order)
        IN /\ fields' = r.data
           /\ log' = Append(log, [op |-> "DecryptSensitiveFields", key |-> password,
                                  in |-> fields, out |-> r.data, err |-> r.err])
    /\ UNCHANGED <<text, rand, EncryptionEnabled, cryptoManager,
                   storeVars, validateVars, keyVars, concVars>>

NextF == EncryptFields \/ DecryptFields

SpecF == InitF /\ [][NextF]_vars

-----------------------------------------------------------------------------
(* SpecP: one call of the policy on a record that holds envelopes, plaintexts *)
(* and malformed envelopes, with the order of the visit on record             *)

\* A plaintext, the bare prefix, an envelope under each key and an envelope
\* whose nonce is of three bytes.
PolicyValues ==
    {Str(<<Ch("s")>>), Str(EncryptedFieldPrefix),
     Str(Encrypt(NewCryptoManagerWithKey("A"), <<Ch("s")>>, 0).out),
     Str(Encrypt(NewCryptoManagerWithKey("B"), <<Ch("s")>>, 0).out),
     Str(EncryptedFieldPrefix \o <<Quad, Comma, Quad, Bracket>>)}

PolicyRecords ==
    {[client_secret |-> c, admin_api_secret |-> a, signing_key |-> k,
      name |-> Str(<<Ch("s")>>)] : c \in PolicyValues, a \in PolicyValues, k \in PolicyValues}

InitP ==
    /\ fields \in PolicyRecords
    /\ text = <<>>
    /\ log = <<>>
    /\ rand = {0}
    /\ EncryptionEnabled = FALSE
    /\ cryptoManager = "none"
    /\ InitIdleStore
    /\ InitIdleValidate
    /\ InitIdleKey
    /\ InitIdleConc

\* What the call did, with the order in which range visited the keys.
Visited(op, password, order, r) ==
    /\ fields' = r.data
    /\ log' = Append(log, [op |-> op, key |-> password, order |-> order,
                           in |-> fields, out |-> r.data, err |-> r.err])

\* err := cm.EncryptSensitiveFields(data); rand.Reader fails for no key or
\* for one.
EncryptFieldsOnce ==
    /\ log = <<>>
    /\ \E password \in Passwords, order \in RangeOrders(fields) :
       \E failing \in {0} \cup DOMAIN order :
        LET ns == [k \in DOMAIN fields |->
                    IF failing # 0 /\ k = order[failing] THEN 0 - 1 ELSE NonceFor(rand, k)]
        IN /\ Visited("EncryptSensitiveFields", password, order,
                      EncryptSensitiveFields(NewCryptoManagerWithKey(password),
                                             fields, order, ns))
           /\ rand' = rand \cup {ns[k] : k \in {x \in DOMAIN fields :
                                    fields'[x] # fields[x]}}
    /\ UNCHANGED <<text, EncryptionEnabled, cryptoManager,
                   storeVars, validateVars, keyVars, concVars>>

\* err := cm.DecryptSensitiveFields(data)
DecryptFieldsOnce ==
    /\ log = <<>>
    /\ \E password \in Passwords, order \in RangeOrders(fields) :
        Visited("DecryptSensitiveFields", password, order,
                DecryptSensitiveFields(NewCryptoManagerWithKey(password), fields, order))
    /\ UNCHANGED <<text, rand, EncryptionEnabled, cryptoManager,
                   storeVars, validateVars, keyVars, concVars>>

NextP == EncryptFieldsOnce \/ DecryptFieldsOnce

SpecP == InitP /\ [][NextP]_vars

-----------------------------------------------------------------------------
(* SpecK and SpecR: the key material resolver. NewCryptoManager takes no   *)
(* lock and goes through its system calls one by one, those inside         *)
(* os.ReadFile and os.WriteFile included, so the steps of the              *)
(* callers (the server's handlers and the encrypt-config command share one *)
(* key file) interleave; in SpecK the override and the key file are also   *)
(* changed from outside between the steps                                  *)

MaxEvents == 3     \* resolutions and outside changes in one run
MaxRawKeys == 2    \* raw keys rand.Reader gives out in one run

\* The n-th raw key rand.Reader gives: no two reads give the same 32 bytes.
RawKey(n) == "k" \o ToString(n)

\* What rand.Read(key) may give next: the next raw key, or "" for a read
\* that fails.
RandomKeys == {"", RawKey(Fresh(rand, 1))}

Overrides == {""} \cup Passwords

\* The key files put in place from outside: none, an empty one, the key of
\* an earlier installation and one copied from elsewhere, each of 32 bytes.
KeyFiles == {NoKeyFile} \cup {[exists |-> TRUE, data |-> d] : d \in {"", RawKey(0), "kx"}}

\* A caller that is not in NewCryptoManager. before is the key file as the
\* call found it, wrote whether the call opened it for writing, fd the file
\* its descriptor is on (0 the file at keyPath, n the unlinked file n),
\* detached whether that file was taken from keyPath while the call held
\* it open, start the length of the log when the call began.
IdleResolution ==
    [getenv |-> "", read |-> readKey(FALSE, TRUE, ""), key |-> "", io |-> "ok",
     cm |-> "none", err |-> nil, before |-> NoKeyFile, wrote |-> FALSE,
     fd |-> 0, detached |-> FALSE, start |-> 0]

InitResolver ==
    /\ pc = [c \in Callers |-> "idle"]
    /\ call = [c \in Callers |-> IdleResolution]
    /\ log = <<>>
    /\ mu = [writer |-> "none", readers |-> {}]
    /\ serial = <<>>
    /\ array = <<>>
    /\ cryptoManager = "none"
    /\ text = <<>>
    /\ fields = <<>>
    /\ rand = {}
    /\ EncryptionEnabled = FALSE
    /\ InitIdleStore
    /\ InitIdleValidate

InitK ==
    /\ env \in Overrides
    /\ keyFile \in {NoKeyFile, [exists |-> TRUE, data |-> RawKey(0)]}
    /\ unlinked = <<>>
    /\ InitResolver

InitR ==
    /\ env \in {"", "A"}
    /\ keyFile = NoKeyFile
    /\ unlinked = <<>>
    /\ InitResolver

\* The resolutions begun and the outside changes made so far.
Events ==
    Cardinality({i \in DOMAIN log : log[i].op # "WriteFile"})
    + Cardinality({c \in Callers : pc[c] \notin {"idle", "returned"}})

\* What the log keeps of a resolution when it returns.
Event(c, cm, err) ==
    [op |-> "NewCryptoManager", caller |-> c, env |-> call[c].getenv,
     before |-> call[c].before, key |-> call[c].key, wrote |-> call[c].wrote,
     after |-> keyFile, start |-> call[c].start, cm |-> cm, err |-> err]

\* The caller moves on with what the step found.
Found(c, to, found) ==
    /\ pc' = [pc EXCEPT ![c] = to]
    /\ call' = [call EXCEPT ![c] = found]

\* The callers whose descriptor is on the file n.
Holders(n) == {c \in Callers : pc[c] \in {"reading", "opened"} /\ call[c].fd = n}

\* The unlinked files once the caller has closed its descriptor: a file
\* nobody holds open any more is gone.
Closed(c, files) ==
    IF call[c].fd # 0 /\ Holders(call[c].fd) = {c}
    THEN [n \in DOMAIN files \ {call[c].fd} |-> files[n]]
    ELSE files

\* key := os.Getenv("UET_MASTER_KEY")
Getenv(c) ==
    /\ pc[c] \in {"idle", "returned"}
    /\ Events < MaxEvents
    /\ Found(c, IF env # "" THEN "return" ELSE "read",
             [IdleResolution EXCEPT !.getenv = env, !.before = keyFile,
                                    !.start = Len(log)])
    /\ UNCHANGED <<keyVars, log, mu, serial, array, cryptoManager, text,
                   fields, rand, EncryptionEnabled, storeVars, validateVars>>

\* The first system call of os.ReadFile(keyPath): the file at keyPath is
\* opened for reading, or there is none, or it may not be read.
OpenFile(c) ==
    /\ pc[c] = "read"
    /\ \E readable \in BOOLEAN :
        LET read == readKey(keyFile.exists, readable, "")
        IN IF read.err = nil
           THEN Found(c, "reading", [call[c] EXCEPT !.fd = 0, !.before = keyFile])
           ELSE Found(c, "rand", [call[c] EXCEPT !.read = read, !.before = keyFile])
    /\ UNCHANGED <<keyVars, log, mu, serial, array, cryptoManager, text,
                   fields, rand, EncryptionEnabled, storeVars, validateVars>>

\* The read and the close of os.ReadFile: the bytes come from the file the
\* descriptor is on, which is the one at keyPath or one taken from it since.
ReadFile(c) ==
    /\ pc[c] = "reading"
    /\ LET data == IF call[c].fd = 0 THEN keyFile.data ELSE unlinked[call[c].fd]
       IN Found(c, "return",
                [call[c] EXCEPT !.read = readKey(TRUE, TRUE, data),
                                !.before = [exists |-> TRUE, data |-> data],
                                !.fd = 0])
    /\ unlinked' = Closed(c, unlinked)
    /\ UNCHANGED <<env, keyFile, log, mu, serial, array, cryptoManager, text,
                   fields, rand, EncryptionEnabled, storeVars, validateVars>>

\* _, err := rand.Read(key)
RandRead(c) ==
    /\ pc[c] = "rand"
    /\ Cardinality(rand) < MaxRawKeys
    /\ \E random \in RandomKeys :
        /\ Found(c, IF random = "" THEN "return" ELSE "write",
                 [call[c] EXCEPT !.key = random])
        /\ rand' = IF random = "" THEN rand ELSE rand \cup {Fresh(rand, 1)}
    /\ UNCHANGED <<keyVars, log, mu, serial, array, cryptoManager, text,
                   fields, EncryptionEnabled, storeVars, validateVars>>

\* The first system call of os.WriteFile(keyPath, key, 0600): the file at
\* keyPath is opened with O_CREATE|O_TRUNC, which leaves it there with zero
\* bytes, or is not opened and stays as it is. The log keeps the opens.
OpenKeyFile(c) ==
    /\ pc[c] = "write"
    /\ \E io \in {"ok", "open"} :
        IF io = "ok"
        THEN /\ keyFile' = [exists |-> TRUE, data |-> ""]
             /\ Found(c, "opened", [call[c] EXCEPT !.wrote = TRUE, !.fd = 0])
             /\ log' = Append(log, [op |-> "WriteFile", caller |-> c,
                                    before |-> keyFile, key |-> call[c].key])
        ELSE /\ Found(c, "return", [call[c] EXCEPT !.io = io])
             /\ UNCHANGED <<keyFile, log>>
    /\ UNCHANGED <<env, unlinked, mu, serial, array, cryptoManager, text,
                   fields, rand, EncryptionEnabled, storeVars, validateVars>>

\* f.Write(key) and f.Close() of os.WriteFile: the key is written through
\* the descriptor, from the first byte of the file that was opened. When
\* that file is no longer the one at keyPath the write succeeds all the
\* same and keyPath stays as it is; a write that fails leaves the file as
\* it is.
WriteFile(c) ==
    /\ pc[c] = "opened"
    /\ \E io \in {"ok", "write"} :
        /\ keyFile' = IF io = "ok" /\ call[c].fd = 0
                      THEN [exists |-> TRUE, data |-> call[c].key]
                      ELSE keyFile
        /\ unlinked' = IF io = "ok" /\ call[c].fd # 0
                       THEN Closed(c, [unlinked EXCEPT ![call[c].fd] = call[c].key])
                       ELSE Closed(c, unlinked)
        /\ Found(c, "return", [call[c] EXCEPT !.io = io, !.fd = 0])
    /\ UNCHANGED <<env, log, mu, serial, array, cryptoManager, text,
                   fields, rand, EncryptionEnabled, storeVars, validateVars>>

\* return &CryptoManager{masterKey: derivedKey}, nil; return nil, fmt.Errorf(...)
Return(c) ==
    /\ pc[c] = "return"
    /\ LET r == NewCryptoManager(call[c].getenv, call[c].read, call[c].key,
                                 call[c].io)
       IN /\ Found(c, "returned", [call[c] EXCEPT !.cm = r.cm, !.err = r.err])
          /\ log' = Append(log, Event(c, r.cm, r.err))
    /\ UNCHANGED <<keyVars, mu, serial, array, cryptoManager, text,
                   fields, rand, EncryptionEnabled, storeVars, validateVars>>

\* cm, err := crypto.NewCryptoManager(), one system call at a time.
ResolveKey(c) ==
    \/ Getenv(c)
    \/ OpenFile(c)
    \/ ReadFile(c)
    \/ RandRead(c)
    \/ OpenKeyFile(c)
    \/ WriteFile(c)
    \/ Return(c)

\* The operator starts the next process with another value of UET_MASTER_KEY.
Setenv ==
    /\ Events < MaxEvents
    /\ \E v \in Overrides \ {env} :
        /\ env' = v
        /\ log' = Append(log, [op |-> "Setenv", env |-> v])
    /\ UNCHANGED <<keyFile, unlinked, pc, call, mu, serial, array, cryptoManager,
                   text, fields, rand, EncryptionEnabled, storeVars, validateVars>>

\* The key file is changed from outside: removed, replaced by another file,
\* or rewritten in place. Removed or replaced, the file the callers hold
\* open lives on without a name, with the bytes it has, and their reads and
\* writes go to it; rewritten in place, their descriptors stay on the file
\* at keyPath.
ChangeKeyFile ==
    /\ Events < MaxEvents
    /\ \E k \in KeyFiles \ {keyFile}, inplace \in BOOLEAN :
        /\ inplace => keyFile.exists /\ k.exists
        /\ keyFile' = k
        /\ IF inplace \/ Holders(0) = {}
           THEN UNCHANGED <<call, unlinked>>
           ELSE /\ call' = [c \in Callers |->
                               IF c \in Holders(0)
                               THEN [call[c] EXCEPT !.fd = Len(log) + 1,
                                                    !.detached = TRUE]
                               ELSE call[c]]
                /\ unlinked' = [n \in DOMAIN unlinked \cup {Len(log) + 1} |->
                                   IF n = Len(log) + 1 THEN keyFile.data
                                   ELSE unlinked[n]]
        /\ log' = Append(log, [op |-> "ChangeKeyFile", after |-> k])
    /\ UNCHANGED <<env, pc, mu, serial, array, cryptoManager, text,
                   fields, rand, EncryptionEnabled, storeVars, validateVars>>

NextK == (\E c \in Callers : ResolveKey(c)) \/ Setenv \/ ChangeKeyFile

SpecK == InitK /\ [][NextK]_vars

NextR == \E c \in Callers : ResolveKey(c)

SpecR == InitR /\ [][NextR]_vars

-----------------------------------------------------------------------------
(* LoadConfig and Save *)

\* The value of a yaml key, or the zero value of the field when it is absent.
Get(y, key, zero) == IF key \in DOMAIN y THEN y[key] ELSE zero

\* yaml.Unmarshal into Application: all the fields, the deprecated one too.
UnmarshalApplication(y) ==
    [ID |-> Get(y, "id", ""), TenantID |-> Get(y, "tenant_id", ""),
     Name |-> Get(y, "name", ""), Type |-> Get(y, "type", ""),
     IsDMP |-> Get(y, "is_dmp", FALSE), Enabled |-> Get(y, "enabled", FALSE),
     ClientID |-> Get(y, "client_id", ""),
     ClientSecret |-> Get(y, "client_secret", ""),
     APIHostname |-> Get(y, "api_hostname", ""),
     EntityID |-> Get(y, "entity_id", ""), ACSURL |-> Get(y, "acs_url", ""),
     RedirectURI |-> Get(y, "redirect_uri", "")]

\* yaml.Unmarshal into Tenant
UnmarshalTenant(y) ==
    Tenant(Get(y, "id", ""), Get(y, "name", ""), Get(y, "admin_api_key", ""),
           Get(y, "admin_api_secret", ""), Get(y, "api_hostname", ""))

\* yaml.Unmarshal(data, config): a key the document lacks leaves its list nil.
Unmarshal(doc) ==
    IF "garbage" \in DOMAIN doc
    THEN [Tenants |-> <<>>, Applications |-> <<>>, err |-> "yaml: did not find expected key"]
    ELSE LET ts == Get(doc, "tenants", <<>>)
             as == Get(doc, "applications", <<>>)
         IN [Tenants |-> [i \in 1..Len(ts) |-> UnmarshalTenant(ts[i])],
             Applications |-> [i \in 1..Len(as) |-> UnmarshalApplication(as[i])],
             err |-> nil]

migrateIgnoresType(app) ==
    [app EXCEPT !.Type = IF app.IsDMP THEN "dmp" ELSE "websdk"]

\* The body of the migration loop of LoadConfig.
migrate(app) ==
    IF app.Type = ""
    THEN [app EXCEPT !.Type = IF app.IsDMP THEN "dmp" ELSE "websdk"]
    ELSE app

\* A file of zero bytes: a document without a key.
NoBytes == <<>>

\* The yaml keys in the order yaml.Marshal writes them.
TenantKeys == <<"id", "name", "admin_api_key", "admin_api_secret", "api_hostname">>

ApplicationKeys ==
    <<"id", "tenant_id", "name", "type", "is_dmp", "enabled", "client_id",
      "client_secret", "api_hostname", "entity_id", "acs_url", "redirect_uri">>

\* The keys whose values are booleans; the others hold strings.
BoolKeys == {"is_dmp", "enabled"}

\* y with key set to v.
WithKey(y, key, v) == [k \in DOMAIN y \cup {key} |-> IF k = key THEN v ELSE y[k]]

\* The record y cut after the line of its j-th key, or after the "key:" of
\* the line that follows, whose null value leaves the field at its zero
\* value: with j = 0, after "- id:", a record without a value.
CutRecord(y, keys, j) ==
    [k \in DOMAIN y \cap {keys[i] : i \in 1..j} |-> y[k]]

\* The strings a plain scalar reads as when the text ends inside it.
CutScalars(v) == {SubSeq(v, 1, n) : n \in 1..(Len(v) - 1)}

\* The record y cut inside the value of its j-th key: a string is read up
\* to the cut. (A boolean cut short, and the empty string, written "", cut
\* after its first quote, do not parse.)
CutInside(y, keys, j) ==
    IF keys[j] \in DOMAIN y \ BoolKeys
    THEN {WithKey(CutRecord(y, keys, j - 1), keys[j], v) : v \in CutScalars(y[keys[j]])}
    ELSE {}

\* The record y cut after or inside one of its lines.
CutRecords(y, keys) ==
    {CutRecord(y, keys, j) : j \in 0..Len(keys)}
    \cup UNION {CutInside(y, keys, j) : j \in 1..Len(keys)}

\* The list cut after one of its records, or after or inside a line of one.
CutList(list, keys) ==
    {SubSeq(list, 1, n) : n \in 0..Len(list)}
    \cup UNION {{Append(SubSeq(list, 1, n - 1), y) : y \in CutRecords(list[n], keys)} :
                n \in 1..Len(list)}

\* What the bytes of a strict prefix of the text of doc can be read as:
\* nothing, text that does not parse (the text cut inside a key, a boolean
\* or a quoted string), or the document cut after or inside a line.
Prefixes(doc) ==
    {NoBytes, [garbage |-> TRUE]}
    \cup (IF "tenants" \in DOMAIN doc
          THEN {[tenants |-> ts] : ts \in CutList(doc.tenants, TenantKeys)}
               \cup (IF "applications" \in DOMAIN doc
                     THEN {[tenants |-> doc.tenants, applications |-> as] :
                            as \in CutList(doc.applications, ApplicationKeys)}
                     ELSE {})
          ELSE {})
    \cup (IF "tenants" \notin DOMAIN doc /\ "applications" \in DOMAIN doc
          THEN {[applications |-> as] :
                    as \in CutList(doc.applications, ApplicationKeys)}
          ELSE {})

\* os.ReadFile(filepath): what the call may return for the file F. A file
\* that a failed write left incomplete holds a strict prefix of its data.
osReadFile(F) ==
    IF "data" \notin DOMAIN F
    THEN {[data |-> NoBytes, err |-> "no such file"]}
    ELSE IF F.complete THEN {[data |-> F.data, err |-> nil]}
    ELSE {[data |-> d, err |-> nil] : d \in Prefixes(F.data)}

\* func LoadConfig(filepath string) (*Config, error): the Config it returns,
\* or none and the error, when os.ReadFile returns read.
LoadConfigResult(read) ==
    IF read.err # nil
    THEN [ok |-> FALSE, Tenants |-> <<>>, Applications |-> <<>>,
          err |-> "failed to read config file: " \o read.err]
    ELSE LET config == Unmarshal(read.data)
         IN IF config.err # nil
            THEN [ok |-> FALSE, Tenants |-> <<>>, Applications |-> <<>>,
                  err |-> "failed to parse config file: " \o config.err]
            ELSE [ok |-> TRUE, Tenants |-> config.Tenants,
                  Applications |-> [i \in 1..Len(config.Applications) |->
                                        migrate(config.Applications[i])],
                  err |-> nil]

-----------------------------------------------------------------------------
(* SpecL: a configuration file, whole or left incomplete by a write that   *)
(* was cut short, loaded, saved and loaded again                            *)

MaxFileApps == 2    \* application records in the file the run starts from

Absent == "<absent>"

\* An application record of a configuration file: type, is_dmp and tenant_id
\* may be missing, and a SAML record carries entity_id and acs_url instead.
YamlApplication(id, type, hasDMP, isDMP, tenantID) ==
    LET base == [id |-> id, name |-> "App", enabled |-> TRUE, client_id |-> "cid",
                 client_secret |-> "secret", api_hostname |-> "host"]
        y1 == IF type = Absent THEN base ELSE WithKey(base, "type", type)
        y2 == IF hasDMP THEN WithKey(y1, "is_dmp", isDMP) ELSE y1
        y3 == IF tenantID = Absent THEN y2 ELSE WithKey(y2, "tenant_id", tenantID)
    IN IF type = "saml"
       THEN WithKey(WithKey(y3, "entity_id", "eid"), "acs_url", "acs")
       ELSE y3

YamlApplications(id) ==
    {YamlApplication(id, type, hasDMP, isDMP, tenantID) :
        type \in {Absent, "", "websdk", "dmp", "saml"},
        hasDMP \in BOOLEAN, isDMP \in BOOLEAN, tenantID \in {Absent, "t1"}}

YamlTenants ==
    {<<[id |-> "t1", name |-> "Tenant", admin_api_key |-> "key",
        admin_api_secret |-> secret, api_hostname |-> "host"]>> :
        secret \in {"secret", ""}}

FileAppIDs == <<"a1", "a2", "a3", "a4">>

\* The documents with up to max application records.
YamlDocuments(max) ==
    LET lists == UNION {{as \in [1..n -> UNION {YamlApplications(FileAppIDs[i]) : i \in 1..n}] :
                            \A i \in 1..n : as[i].id = FileAppIDs[i]} :
                        n \in 0..max}
    IN {[applications |-> as] : as \in lists}
       \cup {[tenants |-> ts, applications |-> as] : ts \in YamlTenants, as \in lists}
       \cup {[tenants |-> ts] : ts \in YamlTenants}

\* The documents as Save writes them.
Written(doc) ==
    LET c == Unmarshal(doc) IN doc = Marshal(c.Tenants, c.Applications)

\* The file the run starts from: a document, one that a failed write of
\* Save left incomplete, text that is not yaml, or no file.
Files(max) ==
    {[data |-> doc, complete |-> TRUE] : doc \in YamlDocuments(max)}
    \cup {[data |-> doc, complete |-> FALSE] :
            doc \in {d \in YamlDocuments(max - 1) : Written(d)}}
    \cup {[data |-> [garbage |-> TRUE], complete |-> TRUE], [missing |-> TRUE]}

\* last also keeps which call ran before the last one.
NoConfig ==
    [op |-> "none", id |-> "", err |-> nil, saved |-> FALSE, before |-> <<0, 0>>,
     prev |-> "none"]

\* Whether the caller holds a Config: LoadConfig has returned one.
HasConfig ==
    \/ last.op \in {"Save", "UpdateApplication"}
    \/ last.op = "LoadConfig" /\ last.err = nil

\* What os.ReadFile may return now: the file has not changed since a
\* LoadConfig that was the last call, so it holds what that call read.
FileRead ==
    IF last.op = "LoadConfig" THEN {last.read} ELSE osReadFile(file)

InitL ==
    /\ file \in Files(MaxFileApps)
    /\ Tenants = <<>>
    /\ Applications = <<>>
    /\ last = NoConfig
    /\ ioFailures = 0
    /\ InitIdleValidate
    /\ InitIdleKey
    /\ InitIdleConc
    /\ InitIdleCrypto

\* config, err := LoadConfig(path)
LoadConfig ==
    /\ \E read \in FileRead :
        LET r == LoadConfigResult(read)
        IN /\ Tenants' = r.Tenants
           /\ Applications' = r.Applications
           /\ last' = [op |-> "LoadConfig", id |-> "", err |-> r.err, saved |-> FALSE,
                       before |-> <<Len(Tenants), Len(Applications)>>,
                       prev |-> last.op, read |-> read]
    /\ UNCHANGED <<file, ioFailures, validateVars, keyVars, concVars, cryptoVars>>

\* err := config.Save()
PublicSave ==
    /\ HasConfig
    /\ LET r == save(Tenants, Applications, file, "ok")
       IN /\ file' = r.file
          /\ last' = [op |-> "Save", id |-> "", err |-> r.err, saved |-> TRUE,
                      before |-> <<Len(Tenants), Len(Applications)>>,
                      prev |-> last.op]
    /\ UNCHANGED <<Tenants, Applications, ioFailures, validateVars, keyVars, concVars, cryptoVars>>

NextL == LoadConfig \/ PublicSave

SpecL == InitL /\ [][NextL]_vars

-----------------------------------------------------------------------------
(* The Store with encryption at rest (specification 4.5): LoadConfig       *)
(* decrypts and save encrypts the sensitive fields of every record when     *)
(* the document has encryption_enabled set. Its records are string-keyed    *)
(* records as the sensitive-field policy takes them.                        *)

\* The highest nonce given out so far.
Top(used) == Fresh(used, 0)

\* The nonces for the sensitive keys of a record.
NoncesFor(used, d) ==
    [k \in {x \in DOMAIN d : contains(sensitiveFields, x)} |-> NonceFor(used, k)]

\* One more record encrypted: r is what encrypt_fields made of record d
\* with the nonces ns.
EncryptedOneMore(prev, d, ns, r) ==
    [list |-> Append(prev.list, r.data),
     used |-> prev.used \cup {ns[k] : k \in {x \in DOMAIN ns : r.data[x] # d[x]}}]

\* What one more record may come to, range visiting its keys in any order.
EncryptNext(cm, prev, d, ns) ==
    {EncryptedOneMore(prev, d, ns, EncryptSensitiveFields(cm, d, order, ns)) :
        order \in RangeOrders(d)}

\* encrypt_fields applied to every record of a list, one record after the
\* other: the lists that may be written, each with the nonces used.
EncryptRecords(cm, list, used) ==
    LET done[i \in 0..Len(list)] ==
            IF i = 0 THEN {[list |-> <<>>, used |-> used]}
            ELSE UNION {EncryptNext(cm, prev, list[i], NoncesFor(prev.used, list[i])) :
                            prev \in done[i - 1]}
    IN done[Len(list)]

\* One more record decrypted, unless an earlier one or this one has failed.
DecryptedOneMore(prev, r) ==
    IF prev.err # nil THEN prev
    ELSE IF r.err # nil THEN [list |-> <<>>, err |-> r.err]
    ELSE [list |-> Append(prev.list, r.data), err |-> nil]

\* decrypt_fields applied to every record of a list, range visiting the keys
\* of each in any order; the first failure ends it.
DecryptRecords(cm, list) ==
    LET done[i \in 0..Len(list)] ==
            IF i = 0 THEN {[list |-> <<>>, err |-> nil]}
            ELSE {DecryptedOneMore(prev, DecryptSensitiveFields(cm, list[i], order)) :
                    prev \in done[i - 1], order \in RangeOrders(list[i])}
    IN done[Len(list)]

\* What save writes when encryption is on: as is made after ts.
WrittenEncrypted(ts, as) ==
    [file |-> [data |-> [encryption_enabled |-> TRUE, tenants |-> ts.list,
                         applications |-> as.list],
               complete |-> TRUE],
     used |-> as.used, err |-> nil]

EncryptedApplications(cm, A, ts) ==
    {WrittenEncrypted(ts, as) : as \in EncryptRecords(cm, A, ts.used)}

\* save() of specification 4.5: the sensitive fields are encrypted in what
\* is written, not in memory. The set holds what the call may come to.
EncryptedSave(T, A, enabled, cm, used) ==
    IF enabled
    THEN UNION {EncryptedApplications(cm, A, ts) : ts \in EncryptRecords(cm, T, used)}
    ELSE {[file |-> [data |-> [encryption_enabled |-> FALSE, tenants |-> T,
                               applications |-> A],
                     complete |-> TRUE],
           used |-> used, err |-> nil]}

\* What load returns from the decrypted lists: a crypto error when a field
\* of either did not decrypt.
Decrypted(ts, as) ==
    IF ts.err # nil
    THEN [ok |-> FALSE, Tenants |-> <<>>, Applications |-> <<>>, err |-> ts.err]
    ELSE IF as.err # nil
    THEN [ok |-> FALSE, Tenants |-> <<>>, Applications |-> <<>>, err |-> as.err]
    ELSE [ok |-> TRUE, Tenants |-> ts.list, Applications |-> as.list, err |-> nil]

\* load(path) of specification 4.5: what the call may come to.
DecryptingLoad(F, cm) ==
    IF ~F.data.encryption_enabled
    THEN {[ok |-> TRUE, Tenants |-> F.data.tenants,
           Applications |-> F.data.applications, err |-> nil]}
    ELSE {Decrypted(ts, as) : ts \in DecryptRecords(cm, F.data.tenants),
                              as \in DecryptRecords(cm, F.data.applications)}

-----------------------------------------------------------------------------
(* SpecS: a configuration file loaded, changed and saved by a Store with    *)
(* encryption at rest, under the key derived from one master key            *)

MaxNonce == 6    \* save runs while rand.Reader has given out fewer nonces

MasterKey == "A"    \* UET_MASTER_KEY

\* An envelope made before the run, under the key derived from password.
OldEnvelope(password, plaintext) ==
    Encrypt(NewCryptoManagerWithKey(password), plaintext, 0).out

\* What a sensitive field of the file may hold: nothing, a plaintext, the
\* bare prefix, an envelope of this key or of another, and an envelope of a
\* plaintext that begins with the prefix.
FileSecrets ==
    {<<>>, <<Ch("s")>>, EncryptedFieldPrefix,
     OldEnvelope(MasterKey, <<Ch("s")>>), OldEnvelope("B", <<Ch("s")>>),
     OldEnvelope(MasterKey, EncryptedFieldPrefix)}

TenantRecord(secret) ==
    [id |-> Str(<<Ch("t1")>>), name |-> Str(<<Ch("s")>>), admin_api_secret |-> Str(secret)]

ApplicationRecord(secret, hasKey) ==
    LET base == [id |-> Str(<<Ch("a1")>>), name |-> Str(<<Ch("s")>>),
                 enabled |-> NotStr(TRUE), client_secret |-> Str(secret)]
    IN IF hasKey THEN WithKey(base, "signing_key", Str(<<Ch("s")>>)) ELSE base

EncryptedFiles ==
    {[data |-> [encryption_enabled |-> enabled,
                tenants |-> <<TenantRecord(ts)>>,
                applications |-> <<ApplicationRecord(as, hasKey)>>],
      complete |-> TRUE] :
        enabled \in BOOLEAN, ts \in FileSecrets, as \in FileSecrets, hasKey \in BOOLEAN}

InitS ==
    /\ file \in EncryptedFiles
    /\ Tenants = <<>>
    /\ Applications = <<>>
    /\ EncryptionEnabled = FALSE
    /\ cryptoManager = "none"
    /\ rand = {}
    /\ last = NoConfig
    /\ ioFailures = 0
    /\ text = <<>>
    /\ fields = <<>>
    /\ log = <<>>
    /\ InitIdleValidate
    /\ InitIdleKey
    /\ InitIdleConc

Ran(op, err) ==
    [op |-> op, id |-> "", err |-> err, saved |-> op # "LoadConfig",
     before |-> <<Len(Tenants), Len(Applications)>>, prev |-> last.op]

\* The state LoadConfig leaves: r is what the load returned.
Loaded(r, cm) ==
    /\ Tenants' = r.Tenants
    /\ Applications' = r.Applications
    /\ EncryptionEnabled' = (r.ok /\ file.data.encryption_enabled)
    /\ cryptoManager' = IF r.ok /\ file.data.encryption_enabled THEN cm ELSE "none"
    /\ last' = Ran("LoadConfig", r.err)

\* config, err := LoadConfig(path)
LoadEncrypted ==
    /\ \E r \in DecryptingLoad(file, NewCryptoManagerWithKey(MasterKey)) :
        Loaded(r, NewCryptoManagerWithKey(MasterKey))
    /\ UNCHANGED <<file, rand, ioFailures, text, fields, log, validateVars, keyVars, concVars>>

\* What a saving call leaves: the file written from the document (T, A).
Saves(op, T, A, enabled, cm) ==
    /\ Top(rand) < MaxNonce
    /\ \E r \in EncryptedSave(T, A, enabled, cm, rand) :
          /\ file' = r.file
          /\ rand' = r.used
          /\ last' = Ran(op, r.err)
    /\ Tenants' = T
    /\ Applications' = A
    /\ EncryptionEnabled' = enabled
    /\ cryptoManager' = cm
    /\ UNCHANGED <<ioFailures, text, fields, log, validateVars, keyVars, concVars>>

\* err := config.Save()
SaveEncrypted ==
    /\ HasConfig
    /\ Saves("Save", Tenants, Applications, EncryptionEnabled, cryptoManager)

\* The operator turns encryption on and saves.
EnableEncryption ==
    /\ HasConfig
    /\ ~EncryptionEnabled
    /\ Saves("Save", Tenants, Applications, TRUE, NewCryptoManagerWithKey(MasterKey))

\* UpdateApplication gives the application a client secret.
UpdateSecret ==
    /\ HasConfig
    /\ \E secret \in {<<Ch("s"), Ch("s")>>, EncryptedFieldPrefix} :
        Saves("UpdateApplication", Tenants,
              [Applications EXCEPT ![1] = [@ EXCEPT !["client_secret"] = Str(secret)]],
              EncryptionEnabled, cryptoManager)

NextS == LoadEncrypted \/ SaveEncrypted \/ EnableEncryption \/ UpdateSecret

SpecS == InitS /\ [][NextS]_vars

-----------------------------------------------------------------------------
(* SpecH: the Store called by the HTTP handlers. c.Applications is a slice   *)
(* over a backing array; GetApplication returns a pointer into that array,   *)
(* which the handler of /app/:id/* reads after the lock is released, and     *)
(* ListApplications reads the slice without taking the lock.                 *)

\* unsafe.Sizeof(Application{}): twenty-two strings and two bools.
ApplicationSize == 360

\* The sizes the allocator of the Go runtime rounds a small object up to
\* (class_to_size, class 0 included).
SizeClasses ==
    <<0, 8, 16, 24, 32, 48, 64, 80, 96, 112, 128, 144, 160, 176, 192, 208, 224,
      240, 256, 288, 320, 352, 384, 416, 448, 480, 512, 576, 640, 704, 768,
      896, 1024, 1152, 1280, 1408, 1536, 1792, 2048, 2304, 2688, 3072, 3200,
      3456, 4096, 4864, 5376, 6144, 6528, 6784, 6912, 8192, 9472, 9728,
      10240, 10880, 12288, 13568, 14336, 16384, 18432, 19072, 20480, 21760,
      24576, 27264, 28672, 32768>>

MaxSmallSize == 32768
PageSize == 8192
MallocHeaderSize == 8
MinSizeForMallocHeader == 512

\* The bytes the runtime allocates for an object of size bytes that holds
\* pointers: the size class of the object and its header, or whole pages.
roundupsize(size) ==
    LET header == IF size > MinSizeForMallocHeader THEN MallocHeaderSize ELSE 0
        i == CHOOSE k \in 1..Len(SizeClasses) :
                /\ SizeClasses[k] >= size + header
                /\ \A m \in 1..(k - 1) : SizeClasses[m] < size + header
    IN IF size <= MaxSmallSize - MallocHeaderSize
       THEN SizeClasses[i] - header
       ELSE ((size + PageSize - 1) \div PageSize) * PageSize

\* The capacity growslice asks for: twice the old one while it is below 256,
\* then a quarter more and 192 at a time.
RECURSIVE quarterMore(_, _)
quarterMore(newLen, cap) ==
    LET newcap == cap + ((cap + 768) \div 4)
    IN IF newcap >= newLen THEN newcap ELSE quarterMore(newLen, newcap)

nextslicecap(newLen, oldCap) ==
    IF newLen > 2 * oldCap THEN newLen
    ELSE IF oldCap < 256 THEN 2 * oldCap
    ELSE quarterMore(newLen, oldCap)

\* The capacity append gives a slice of Application that is full: what the
\* allocation for the capacity asked holds.
grown(cap) ==
    roundupsize(nextslicecap(cap + 1, cap) * ApplicationSize) \div ApplicationSize

\* append(s, e) for the slice of length n over the array a: in place when
\* the capacity allows, in a new array otherwise.
appendTo(a, n, e) ==
    IF n < Len(a) THEN [a EXCEPT ![n + 1] = e]
    ELSE [i \in 1..grown(Len(a)) |->
            IF i <= n THEN a[i] ELSE IF i = n + 1 THEN e ELSE ZeroApplication]

\* append(s[:i], s[i+1:]...) for the slice of length n over the array a: the
\* elements after i move down one slot and the last slot keeps what it held.
deleteAt(a, n, i) ==
    [k \in 1..Len(a) |-> IF k >= i /\ k < n THEN a[k + 1] ELSE a[k]]

\* var remainingApps []Application, then one append for each element of list.
collected(list) ==
    LET done[k \in 0..Len(list)] ==
            IF k = 0 THEN <<>> ELSE appendTo(done[k - 1], k - 1, list[k])
    IN done[Len(list)]

\* The backing array of c.Applications after the mutation op, which found
\* the list A over the array a and left the list B.
arrayAfter(op, id, a, A, B) ==
    CASE op = "AddApplication" -> appendTo(a, Len(A), B[Len(B)])
      [] op = "UpdateApplication" ->
            [a EXCEPT ![indexOf(A, id)] = B[indexOf(A, id)]]
      [] op = "DeleteApplication" -> deleteAt(a, Len(A), indexOf(A, id))
      [] op = "DeleteTenant" -> collected(B)
      [] OTHER -> a

\* Whether the mutation left c.Applications over a new array.
reallocated(op, a, A) ==
    \/ op = "DeleteTenant"
    \/ op = "AddApplication" /\ Len(A) = Len(a)

\* What a *Application denotes: the slot of the backing array it points
\* into, or, once c.Applications has moved to another array, the slot of the
\* array left behind, which nothing writes any more.
View(p) == IF p.live THEN array[p.slot] ELSE p.app

\* The pointers of the callers after a mutation moved c.Applications.
leftBehind(calls) ==
    [c \in DOMAIN calls |->
        IF calls[c].ptr.live
        THEN [calls[c] EXCEPT !.ptr = [slot |-> @.slot, live |-> FALSE,
                                       app |-> array[@.slot]]]
        ELSE calls[c]]

unlockedWritersOnly(m, c) ==
    [writer |-> IF m.writer = c THEN "none" ELSE m.writer, readers |-> m.readers]

\* defer c.mu.Unlock(), defer c.mu.RUnlock()
unlocked(m, c) ==
    [writer |-> IF m.writer = c THEN "none" ELSE m.writer, readers |-> m.readers \ {c}]

\* Whether caller c holds c.mu.
Holds(c) == mu.writer = c \/ c \in mu.readers

\* The requests the callers serve: c1 those of the configuration pages, c2
\* those of the application routes; either may call Save.
HCalls(c) ==
    IF c = "c1"
    THEN {<<"AddApplication", "", a>> : a \in {x \in CAppInputs : x.TenantID = "t1"}}
         \cup {<<"UpdateApplication", "a1", a>> : a \in {x \in CAppInputs : x.Type = "saml"}}
         \cup {<<"AddTenant", "", t>> : t \in CTenantInputs}
         \cup {<<"DeleteApplication", "a1", ZeroApplication>>,
               <<"DeleteTenant", "t1", ZeroApplication>>,
               <<"ListApplications", "", ZeroApplication>>,
               <<"Save", "", ZeroApplication>>}
    ELSE {<<"GetApplication", "u1", ZeroApplication>>,
          <<"GetEnabledApplications", "", ZeroApplication>>,
          <<"Save", "", ZeroApplication>>}

InitH ==
    /\ Tenants = <<>>
    /\ Applications = <<>>
    /\ array = <<>>
    /\ file = [data |-> Marshal(<<>>, <<>>), complete |-> TRUE]
    /\ last = [op |-> "LoadConfig", id |-> "", err |-> nil, saved |-> FALSE,
               before |-> <<0, 0>>]
    /\ ioFailures = 0
    /\ mu = [writer |-> "none", readers |-> {}]
    /\ pc = [c \in Callers |-> "idle"]
    /\ call = [c \in Callers |-> IdleCall]
    /\ serial = <<>>
    /\ InitIdleValidate
    /\ InitIdleKey
    /\ InitIdleCrypto

\* A request arrives: the handler of ListApplications goes on to read
\* h.Config.Applications, every other handler calls the Store.
Invoke(c) ==
    /\ pc[c] = "idle"
    /\ \E h \in HCalls(c) :
        /\ pc' = [pc EXCEPT ![c] = IF h[1] = "ListApplications" THEN "list" ELSE "wait"]
        /\ call' = [call EXCEPT ![c] = [IdleCall EXCEPT !.op = h[1], !.id = h[2],
                                                         !.rec = h[3]]]
    /\ UNCHANGED <<storeVars, mu, serial, array, validateVars, keyVars, cryptoVars>>

\* c.mu.Lock() in the mutations, c.mu.RLock() in the reads and in Save.
Acquire(c) ==
    /\ pc[c] = "wait"
    /\ IF call[c].op \in MutatingOps
       THEN canLock(mu) /\ mu' = [mu EXCEPT !.writer = c]
       ELSE canRLock(mu) /\ mu' = [mu EXCEPT !.readers = @ \cup {c}]
    /\ pc' = [pc EXCEPT ![c] = IF call[c].op = "Save" THEN "write" ELSE "run"]
    /\ UNCHANGED <<storeVars, call, serial, array, validateVars, keyVars, cryptoVars>>

\* The body of a mutation up to its call of c.save(): r is what the
\* operation makes of the document.
Mutates(c, r) ==
    /\ Tenants' = r.Tenants
    /\ Applications' = r.Applications
    /\ array' = IF r.saved
                THEN arrayAfter(call[c].op, call[c].id, array, Applications, r.Applications)
                ELSE array
    /\ call' = [(IF r.saved /\ reallocated(call[c].op, array, Applications)
                 THEN leftBehind(call) ELSE call) EXCEPT ![c].err = r.err]
    /\ pc' = [pc EXCEPT ![c] = IF r.saved THEN "write" ELSE "release"]

\* The body of a read: GetApplication returns &c.Applications[i].
Reads(c, answer) ==
    /\ call' = [call EXCEPT ![c].result = answer,
                            ![c].ptr = IF call[c].op = "GetApplication" /\ answer[1] = "found"
                                       THEN [slot |-> answer[2], live |-> TRUE,
                                             app |-> answer[3]]
                                       ELSE NoPointer]
    /\ pc' = [pc EXCEPT ![c] = "release"]
    /\ UNCHANGED <<Tenants, Applications, array>>

Run(c) ==
    /\ pc[c] = "run"
    /\ IF call[c].op \in MutatingOps
       THEN \E uuid \in UUIDs :
                Mutates(c, ResultOn([Tenants |-> Tenants, Applications |-> Applications,
                                     file |-> file],
                                    call[c].op, call[c].id, call[c].rec, uuid, "ok"))
       ELSE Reads(c, Answer(call[c].op, call[c].id, Tenants, Applications))
    /\ UNCHANGED <<file, last, ioFailures, mu, serial, validateVars, keyVars, cryptoVars>>

\* yaml.Marshal(c) and the first system call of os.WriteFile(c.filepath,
\* data, 0644), in save and in Save: the file is opened with O_TRUNC, which
\* leaves it with zero bytes. Here the open succeeds; SpecC has the calls
\* whose open fails.
OpenTrunc(c) ==
    /\ pc[c] = "write"
    /\ file' = [data |-> NoBytes, complete |-> TRUE]
    /\ pc' = [pc EXCEPT ![c] = "opened"]
    /\ UNCHANGED <<Tenants, Applications, last, ioFailures, mu, call, serial, array,
                   validateVars, keyVars, cryptoVars>>

\* The file after a write of data from its first byte on that failed part
\* of the way: the bytes a caller that was not cut short wrote stay.
cutShort(F, data) ==
    IF F = [data |-> data, complete |-> TRUE] THEN F
    ELSE [data |-> data, complete |-> FALSE]

\* f.Write(data) and f.Close() of os.WriteFile: the document is written from
\* the first byte of the file on, all of it or, when the write fails, a
\* strict prefix of it.
Write(c) ==
    /\ pc[c] = "opened"
    /\ \E io \in {"ok", "write failed"} :
        IF io = "ok"
        THEN /\ file' = [data |-> Marshal(Tenants, Applications), complete |-> TRUE]
             /\ UNCHANGED call
        ELSE /\ file' = cutShort(file, Marshal(Tenants, Applications))
             /\ call' = [call EXCEPT ![c].err = "failed to write config file: write"]
    /\ pc' = [pc EXCEPT ![c] = "release"]
    /\ UNCHANGED <<Tenants, Applications, last, ioFailures, mu, serial, array,
                   validateVars, keyVars, cryptoVars>>

\* The operation returns and its deferred unlock runs; the handler of
\* /app/:id/* goes on with the pointer GetApplication gave it.
Release(c) ==
    /\ pc[c] = "release"
    /\ mu' = unlocked(mu, c)
    /\ IF call[c].ptr.slot # 0
       THEN pc' = [pc EXCEPT ![c] = "deref"] /\ call' = call
       ELSE pc' = [pc EXCEPT ![c] = "idle"] /\ call' = [call EXCEPT ![c] = IdleCall]
    /\ UNCHANGED <<storeVars, serial, array, validateVars, keyVars, cryptoVars>>

\* if !app.Enabled ...; appType := app.GetApplicationType(): the handler
\* reads the application through the pointer.
Deref(c) ==
    /\ pc[c] = "deref"
    /\ pc' = [pc EXCEPT ![c] = "idle"]
    /\ call' = [call EXCEPT ![c] = IdleCall]
    /\ UNCHANGED <<storeVars, mu, serial, array, validateVars, keyVars, cryptoVars>>

\* "applications": h.Config.Applications
ListApplications(c) ==
    /\ pc[c] = "list"
    /\ pc' = [pc EXCEPT ![c] = "idle"]
    /\ call' = [call EXCEPT ![c] = IdleCall]
    /\ UNCHANGED <<storeVars, mu, serial, array, validateVars, keyVars, cryptoVars>>

NextH ==
    \E c \in Callers :
        \/ Invoke(c)
        \/ Acquire(c)
        \/ Run(c)
        \/ OpenTrunc(c)
        \/ Write(c)
        \/ Release(c)
        \/ Deref(c)
        \/ ListApplications(c)

SpecH == InitH /\ [][NextH]_vars

\* The scheduler runs every goroutine that can run, and sync.RWMutex lets no
\* goroutine that waits for it starve.
Proceeds(c) ==
    Run(c) \/ OpenTrunc(c) \/ Write(c) \/ Release(c) \/ Deref(c) \/ ListApplications(c)

FairH ==
    \A c \in Callers :
        /\ SF_vars(Acquire(c))
        /\ WF_vars(Proceeds(c))

SpecHFair == SpecH /\ FairH

-----------------------------------------------------------------------------
(* Properties of the Store's operations *)

\* list without the records that have the given ID / tenant reference.
WithoutID(list, id) == SelectSeq(list, LAMBDA r : r.ID # id)
WithoutTenant(list, id) == SelectSeq(list, LAMBDA a : a.TenantID # id)

\* C1: DeleteTenant(id) on an existing tenant removes that tenant and exactly
\* the applications whose tenant reference equals id; every other tenant and
\* every application with a different or empty tenant reference remains, in
\* its original relative order.
C1_DeleteTenantCascades ==
    [][(last'.op = "DeleteTenant" /\ (\E i \in 1..Len(Tenants) : Tenants[i].ID = last'.id))
        => /\ Tenants' = WithoutID(Tenants, last'.id)
           /\ Applications' = WithoutTenant(Applications, last'.id)]_vars

\* A DeleteTenant that removed one of two tenants and one of three applications,
\* leaving an application of another tenant and one without tenant.
C1_Witness ==
    /\ last.op = "DeleteTenant" /\ last.err = nil
    /\ last.before = <<2, 3>>
    /\ Len(Tenants) = 1 /\ Len(Applications) = 2
    /\ \E i, j \in 1..Len(Applications) :
        /\ Applications[i].TenantID = ""
        /\ Applications[j].TenantID \notin {"", last.id}

Distinct(list) ==
    \A i, j \in 1..Len(list) : i # j => list[i].ID # list[j].ID

\* C3: starting from a document with pairwise distinct identifiers, after any
\* sequence of AddApplication, UpdateApplication, DeleteApplication, AddTenant
\* and DeleteTenant calls no two applications share an id and no two tenants
\* share an id.
C3_IdentifiersUnique == Distinct(Applications) /\ Distinct(Tenants)

\* An update of one of three applications by a record that carried the id of
\* another one.
C3_Witness ==
    /\ last.op = "UpdateApplication" /\ last.err = nil
    /\ last.id # "a1"
    /\ Len(Applications) = 3 /\ Len(Tenants) = 2
    /\ \E i \in 1..Len(Applications) : Applications[i].ID = "a1"

KnownTypes == {"websdk", "dmp", "saml", "oidc"}

\* The application invariants of the data model.
ApplicationInvariants(a) ==
    /\ a.Name # ""
    /\ a.Type \in KnownTypes
    /\ a.APIHostname # ""
    /\ a.Type = "saml" => a.EntityID # "" /\ a.ACSURL # ""
    /\ a.Type = "oidc" => a.ClientID # "" /\ a.ClientSecret # "" /\ a.RedirectURI # ""
    /\ a.Type \in {"websdk", "dmp"} => a.ClientID # "" /\ a.ClientSecret # ""

TenantInvariants(t) ==
    t.Name # "" /\ t.AdminAPIKey # "" /\ t.AdminAPISecret # "" /\ t.APIHostname # ""

\* C4: after any sequence of AddApplication, UpdateApplication and AddTenant
\* calls on an initially empty document, every application satisfies the
\* application invariants and every tenant has non-empty name, API key, API
\* secret and hostname.
C4_RecordsValid ==
    /\ \A i \in 1..Len(Applications) : ApplicationInvariants(Applications[i])
    /\ \A i \in 1..Len(Tenants) : TenantInvariants(Tenants[i])

\* A document holding a SAML application without client credentials, a
\* redirect-prompt application and a tenant, after a call was turned down.
C4_Witness ==
    /\ last.err \in ValidationErrors
    /\ Len(Tenants) >= 1
    /\ \E i, j \in 1..Len(Applications) :
        /\ Applications[i].Type = "saml" /\ Applications[i].ClientID = ""
        /\ Applications[j].Type = "websdk"

\* C6: whenever AddApplication, UpdateApplication or AddTenant returns a
\* validation error, the in-memory lists are exactly as before the call and the
\* backing file has not been written.
C6_ValidationBeforeMutation ==
    [][(/\ last'.op \in {"AddApplication", "UpdateApplication", "AddTenant"}
        /\ last'.err \in ValidationErrors)
        => /\ UNCHANGED <<Tenants, Applications, file>>
           /\ ~last'.saved]_vars

\* An UpdateApplication of an application of the document, turned down by
\* validation.
C6_Witness ==
    /\ last.op = "UpdateApplication"
    /\ last.err = "client_id is required"
    /\ \E i \in 1..Len(Applications) : Applications[i].ID = last.id

\* The call that ran in this step named an identifier the document does not hold.
UnknownID ==
    \/ /\ last'.op \in {"UpdateApplication", "DeleteApplication"}
       /\ \A i \in 1..Len(Applications) : Applications[i].ID # last'.id
    \/ /\ last'.op = "DeleteTenant"
       /\ \A i \in 1..Len(Tenants) : Tenants[i].ID # last'.id

NotFoundError ==
    IF last'.op = "DeleteTenant"
    THEN "tenant with id '" \o last'.id \o "' not found"
    ELSE "application with id '" \o last'.id \o "' not found"

\* C7 as stated: UpdateApplication, DeleteApplication and DeleteTenant called
\* with an identifier that is not in the document fail with a not-found error
\* (not a validation error) and have no side effects.
C7_UnknownIDIsNotFound ==
    [][UnknownID
        => /\ last'.err = NotFoundError
           /\ UNCHANGED <<Tenants, Applications, file>>
           /\ ~last'.saved]_vars

\* C7 as amended: DeleteApplication and DeleteTenant called with an identifier
\* that is not in the document fail with a not-found error; UpdateApplication
\* fails with a not-found error, or with the validation error of its argument,
\* which is checked first; in every case the lists are unchanged and the file
\* is not written.
C7_UnknownIDFailsWithoutEffect ==
    [][UnknownID
        => /\ \/ last'.err = NotFoundError
              \/ last'.op = "UpdateApplication" /\ last'.err \in ValidationErrors
           /\ UNCHANGED <<Tenants, Applications, file>>
           /\ ~last'.saved]_vars

\* A DeleteApplication of an identifier that a non-empty document does not hold.
C7_Witness ==
    /\ last.op = "DeleteApplication"
    /\ last.err = "application with id '" \o last.id \o "' not found"
    /\ Len(Applications) >= 1 /\ Len(Tenants) >= 1
    /\ ~last.saved

-----------------------------------------------------------------------------
(* Properties of the concurrent Store *)

Document == [Tenants |-> Tenants, Applications |-> Applications, file |-> file]

InSync(F, T, A) == F = [data |-> Marshal(T, A), complete |-> TRUE]

\* How many applications of list A refer to tenant id.
AppsOf(A, id) == Len(SelectSeq(A, LAMBDA a : a.TenantID = id))

HasID(list, id) == \E i \in 1..Len(list) : list[i].ID = id

\* The tenant and the applications of tenant id that the data of a file hold.
FileHasTenant(data, id) ==
    /\ "tenants" \in DOMAIN data
    /\ \E i \in 1..Len(data.tenants) : data.tenants[i].id = id
FileHasAppOf(data, id) ==
    \E i \in 1..Len(data.applications) :
        /\ "tenant_id" \in DOMAIN data.applications[i]
        /\ data.applications[i].tenant_id = id

\* The cascade of the DeleteTenant call of caller c is applied in part: the
\* tenant is gone and one of its applications is there, or the tenant is there
\* and one of its applications is gone.
PartialCascade(c) ==
    LET id == call[c].id
    IN \/ ~HasID(Tenants, id) /\ AppsOf(Applications, id) > 0
       \/ /\ HasID(Tenants, id)
          /\ AppsOf(Applications, id) < AppsOf(call[c].pre.Applications, id)

\* C2: the tenant cascade is all-or-nothing: in no state visible to another
\* Store operation, and in no state in which DeleteTenant returns (with success
\* or with any error, including a failed save), is the tenant removed while an
\* application referencing it is still present, or an application of the
\* tenant removed while the tenant is still present; the file, when the call
\* wrote it, holds neither the tenant nor an application of it.
C2_CascadeAllOrNothing ==
    \A c \in Callers :
        (/\ call[c].op = "DeleteTenant"
         /\ pc[c] \in WriterSteps
         /\ HasID(call[c].pre.Tenants, call[c].id))
        => /\ PartialCascade(c) =>
                /\ pc[c] # "unlock"
                /\ \A d \in Callers \ {c} : pc[d] = "idle"
           /\ (pc[c] = "unlock" /\ file # call[c].pre.file) =>
                /\ ~FileHasTenant(file.data, call[c].id)
                /\ ~FileHasAppOf(file.data, call[c].id)

\* DeleteTenant returns the error of a failed write, having removed a tenant
\* and its two applications.
C2_Witness ==
    \E c \in Callers :
        /\ call[c].op = "DeleteTenant" /\ pc[c] = "unlock"
        /\ call[c].err = "failed to write config file: write"
        /\ HasID(call[c].pre.Tenants, call[c].id)
        /\ AppsOf(call[c].pre.Applications, call[c].id) = 2
        /\ ~HasID(Tenants, call[c].id)
        /\ AppsOf(Applications, call[c].id) = 0

\* C8: the store is write-through: whenever a mutating operation returns
\* success, the content of the backing file is the serialization of the
\* in-memory document as it is at that moment.
C8_WriteThrough ==
    \A c \in Callers :
        (pc[c] = "unlock" /\ call[c].op \in MutatingOps /\ call[c].err = nil)
        => InSync(file, Tenants, Applications)

\* A DeleteApplication returns success on a document whose file was left
\* behind by an earlier failed write.
C8_Witness ==
    \E c \in Callers :
        /\ pc[c] = "unlock" /\ call[c].op = "DeleteApplication" /\ call[c].err = nil
        /\ ioFailures >= 1
        /\ ~InSync(call[c].pre.file, call[c].pre.Tenants, call[c].pre.Applications)
        /\ Len(Applications) >= 1

\* C9: two concurrent mutating operations never interleave: at most one caller
\* is inside a mutating operation, and the in-memory document and the backing
\* file a mutation leaves, and the error it returns, are those of the
\* mutations executed one after another in the order they took the lock.
C9_MutationsSerialize ==
    /\ Cardinality({c \in Callers : pc[c] \in WriterSteps}) <= 1
    /\ \A c \in Callers :
        pc[c] = "unlock" => Document = serial /\ call[c].err = call[c].expect
    /\ (\A c \in Callers : pc[c] \notin WriterSteps) => Document = serial

\* A caller is between the two assignments of DeleteTenant, after earlier
\* mutations added a tenant and its application, and the other caller is kept
\* out.
C9_Witness ==
    \E c \in Callers :
        /\ pc[c] = "mutateTenants" /\ call[c].op = "DeleteTenant"
        /\ AppsOf(call[c].pre.Applications, call[c].id) >= 1
        /\ Document # serial
        /\ \A d \in Callers \ {c} : pc[d] = "idle"
        /\ ~canLock(mu) /\ ~canRLock(mu)

\* C10: the read operations running concurrently with each other and with
\* mutations each return the answer computed on a document state that existed
\* between two completed mutations, and no mutation runs while one of them
\* reads.
C10_ReadsConsistent ==
    \A c \in Callers :
        /\ pc[c] = "runlock" => call[c].result = call[c].expect
        /\ pc[c] \in ReaderSteps =>
            /\ \A d \in Callers : pc[d] \notin WriterSteps
            /\ Document = serial

\* Two callers read at the same time: one has the two applications of a
\* tenant, the other is looking an application up.
C10_Witness ==
    \E c, d \in Callers :
        /\ c # d
        /\ pc[c] = "runlock" /\ call[c].op = "GetApplicationsByTenant"
        /\ Len(call[c].result) = 2
        /\ pc[d] = "scan" /\ call[d].op = "GetApplication" /\ call[d].index = 2

-----------------------------------------------------------------------------
(* Properties of validation *)

\* The acceptance condition of the data model.
Accepted(a) ==
    /\ a.Name # ""
    /\ a.Type \in KnownTypes
    /\ a.APIHostname # ""
    /\ \/ a.Type = "saml" /\ a.EntityID # "" /\ a.ACSURL # ""
       \/ a.Type = "oidc" /\ a.ClientID # "" /\ a.ClientSecret # "" /\ a.RedirectURI # ""
       \/ a.Type \in {"websdk", "dmp"} /\ a.ClientID # "" /\ a.ClientSecret # ""

\* C5: validation accepts an application exactly when its name is non-empty,
\* its type is known, its API hostname is non-empty and the fields its type
\* requires are set; a saml application with entity id and ACS URL and no
\* client credentials is accepted, and a websdk application with the same
\* fields is rejected with the error naming the missing client id.
C5_ValidationBoundary ==
    (vKind = "app" /\ vErr # "pending") =>
        /\ (vErr = nil) <=> Accepted(vApp)
        /\ (/\ vApp.Type = "saml" /\ vApp.Name # "" /\ vApp.APIHostname # ""
            /\ vApp.EntityID # "" /\ vApp.ACSURL # "") => vErr = nil
        /\ (/\ vApp.Type = "websdk" /\ vApp.Name # "" /\ vApp.ClientID = "")
            => vErr = "client_id is required"

\* A saml application with entity id and ACS URL and no client credentials,
\* accepted.
C5_Witness ==
    /\ vKind = "app" /\ vErr = nil
    /\ vApp.Type = "saml" /\ vApp.ClientID = "" /\ vApp.ClientSecret = ""


-----------------------------------------------------------------------------
(* Properties of the envelope cipher *)

Calls(op) == {i \in 1..Len(log) : log[i].op = op}

\* An earlier Encrypt call and a later Decrypt call given what it returned.
Reopened(i, j) ==
    /\ i \in Calls("Encrypt")
    /\ j \in Calls("Decrypt")
    /\ i < j
    /\ log[j].in = log[i].out

\* C14: Decrypt of what Encrypt returned, under the same key, returns the
\* plaintext without error, whatever the plaintext; Encrypt of the empty
\* string returns the empty string, and Encrypt of any other plaintext
\* returns an envelope that begins with ENC[AES256_GCM, .
C14_CipherRoundTrip ==
    /\ \A i \in Calls("Encrypt") :
        /\ log[i].err = nil
        /\ log[i].in = <<>> => log[i].out = <<>>
        /\ log[i].in # <<>> => /\ HasPrefix(log[i].out, EncryptedFieldPrefix)
                               /\ Len(log[i].out) > Len(EncryptedFieldPrefix)
    /\ \A i, j \in 1..Len(log) :
        (Reopened(i, j) /\ log[i].key = log[j].key)
            => log[j].err = nil /\ log[j].out = log[i].in

\* A plaintext that itself begins with the prefix has made the round trip.
C14_Witness ==
    \E i, j \in 1..Len(log) :
        /\ Reopened(i, j)
        /\ log[i].key = log[j].key
        /\ HasPrefix(log[i].in, EncryptedFieldPrefix)
        /\ log[j].out = log[i].in

\* C15: two Encrypt calls with the same key and the same non-empty plaintext
\* return different envelopes, and each of them decrypts to the plaintext.
C15_NonceUniqueness ==
    \A i, j \in Calls("Encrypt") :
        (i < j /\ log[i].key = log[j].key /\ log[i].in = log[j].in
            /\ log[i].in # <<>>)
        => /\ log[i].out # log[j].out
           /\ \A k \in {i, j} :
                Decrypt(NewCryptoManagerWithKey(log[k].key), log[k].out)
                    = Returned(log[k].in, nil)

C15_Witness ==
    \E i, j \in Calls("Encrypt") :
        /\ i < j
        /\ log[i].key = log[j].key
        /\ log[i].in = log[j].in
        /\ log[i].in # <<>>
        /\ log[i].out # log[j].out

\* A string of exactly the form ENC[AES256_GCM,<nonce>,<ciphertext>].
EnvelopeFormat(s) ==
    /\ s # <<>>
    /\ MatchAt(s, 1)
    /\ FindStringSubmatch(s)[1] = s

\* C16 as stated: on every input that does not have the envelope format,
\* Decrypt returns the input unchanged and no error.
C16_IdentityOnNonEnvelopes ==
    \A j \in Calls("Decrypt") :
        ~EnvelopeFormat(log[j].in)
            => log[j].out = log[j].in /\ log[j].err = nil

\* C16 amended: on every input that does not begin with ENC[AES256_GCM,
\* Decrypt returns the input unchanged and no error.
C16_IdentityWithoutPrefix ==
    \A j \in Calls("Decrypt") :
        ~HasPrefix(log[j].in, EncryptedFieldPrefix)
            => log[j].out = log[j].in /\ log[j].err = nil

\* Decrypt has passed through a string that holds the prefix, but not in front.
C16_Witness ==
    \E j \in Calls("Decrypt") :
        /\ ~HasPrefix(log[j].in, EncryptedFieldPrefix)
        /\ \E k \in 2..(Len(log[j].in) - 1) :
            SubSeq(log[j].in, k, k + 1) = EncryptedFieldPrefix
        /\ log[j].out = log[j].in
        /\ log[j].err = nil

\* C17: an envelope that Encrypt made under one key is rejected with an error
\* by Decrypt under any other key (it is returned neither as a plaintext nor
\* unchanged), and is opened by Decrypt under the key that made it.
C17_WrongKeyRejected ==
    \A i, j \in 1..Len(log) :
        (Reopened(i, j) /\ log[i].in # <<>>)
        => IF log[i].key = log[j].key
           THEN log[j].err = nil /\ log[j].out = log[i].in
           ELSE /\ log[j].err # nil
                /\ log[j].out # log[i].in
                /\ log[j].out # log[j].in

C17_Witness ==
    \E i, j, k \in 1..Len(log) :
        /\ Reopened(i, j) /\ Reopened(i, k)
        /\ log[i].in # <<>>
        /\ log[i].key # log[j].key /\ log[j].err # nil
        /\ log[i].key = log[k].key /\ log[k].err = nil


-----------------------------------------------------------------------------
(* Properties of the sensitive-field policy *)

SensitiveKeys == {"client_secret", "admin_api_secret", "signing_key"}

\* Two calls made one after the other on the record.
Consecutive(i, opI, opJ) ==
    /\ i \in 1..(Len(log) - 1)
    /\ log[i].op = opI
    /\ log[i + 1].op = opJ

\* C18: an EncryptSensitiveFields call that follows an EncryptSensitiveFields
\* call on the same record changes no field, whatever its key: no value is
\* encrypted twice.
C18_FieldEncryptionIdempotent ==
    \A i \in 1..Len(log) :
        Consecutive(i, "EncryptSensitiveFields", "EncryptSensitiveFields")
            => /\ log[i + 1].err = nil
               /\ log[i + 1].out = log[i + 1].in

\* The first call encrypted a field and the second, under another key, left it.
C18_Witness ==
    \E i \in 1..Len(log) :
        /\ Consecutive(i, "EncryptSensitiveFields", "EncryptSensitiveFields")
        /\ log[i].out # log[i].in
        /\ log[i].key # log[i + 1].key
        /\ log[i + 1].out = log[i].out

\* C19: EncryptSensitiveFields and DecryptSensitiveFields keep the keys of
\* the record, the value of every key other than the three sensitive ones,
\* and every sensitive value that is empty or not a string.
C19_OnlySensitiveFieldsTouched ==
    \A i \in 1..Len(log) :
        /\ DOMAIN log[i].out = DOMAIN log[i].in
        /\ \A k \in DOMAIN log[i].in :
            (\/ k \notin SensitiveKeys
             \/ ~IsString(log[i].in[k])
             \/ log[i].in[k] = Str(<<>>))
                => log[i].out[k] = log[i].in[k]

\* A call changed a sensitive field of a record that also holds another key,
\* an empty sensitive value and a sensitive value that is not a string.
C19_Witness ==
    \E i \in 1..Len(log) :
        /\ log[i].out # log[i].in
        /\ "name" \in DOMAIN log[i].in
        /\ \E k \in DOMAIN log[i].in : k \in SensitiveKeys /\ ~IsString(log[i].in[k])
        /\ \E k \in DOMAIN log[i].in : k \in SensitiveKeys /\ log[i].in[k] = Str(<<>>)

\* DecryptSensitiveFields with the key of the EncryptSensitiveFields call
\* before it succeeds and gives every sensitive field the value it had.
Restored(i) ==
    /\ log[i + 1].err = nil
    /\ \A k \in DOMAIN log[i].in :
        k \in SensitiveKeys => log[i + 1].out[k] = log[i].in[k]

\* C20 as stated: for every record, EncryptSensitiveFields followed by
\* DecryptSensitiveFields with the same key succeeds and restores every
\* sensitive field.
C20_FieldRoundTrip ==
    \A i \in 1..Len(log) :
        (Consecutive(i, "EncryptSensitiveFields", "DecryptSensitiveFields")
            /\ log[i].key = log[i + 1].key)
        => Restored(i)

\* No sensitive field of the record holds a string that begins with the prefix.
NoEnvelopeYet(d) ==
    \A k \in DOMAIN d :
        (k \in SensitiveKeys /\ IsString(d[k])) => ~IsEncrypted(d[k].str)

\* C20 amended: the round trip holds for every record none of whose
\* sensitive fields already holds a string that begins with ENC[AES256_GCM, .
C20_PlainFieldRoundTrip ==
    \A i \in 1..Len(log) :
        (Consecutive(i, "EncryptSensitiveFields", "DecryptSensitiveFields")
            /\ log[i].key = log[i + 1].key
            /\ NoEnvelopeYet(log[i].in))
        => Restored(i)

\* Two sensitive fields were encrypted and both came back.
C20_Witness ==
    \E i \in 1..Len(log) :
        /\ Consecutive(i, "EncryptSensitiveFields", "DecryptSensitiveFields")
        /\ log[i].key = log[i + 1].key
        /\ NoEnvelopeYet(log[i].in)
        /\ \E k \in DOMAIN log[i].in : k # "signing_key" /\ log[i].out[k] # log[i].in[k]
        /\ "signing_key" \in DOMAIN log[i].in
        /\ log[i].out["signing_key"] # log[i].in["signing_key"]
        /\ log[i + 1].out = log[i].in


-----------------------------------------------------------------------------
(* Properties of LoadConfig and Save *)

\* Every record of the document passes validation.
ValidDocument(T, A) ==
    /\ \A i \in 1..Len(T) : validateTenant(T[i]) = nil
    /\ \A i \in 1..Len(A) : validateApplication(A[i]) = nil

\* C11: when Save has written a document whose records are valid, the
\* LoadConfig that follows returns, without error, the same tenants and the
\* same applications, field by field and in the same order.
C11_SaveLoadRoundTrip ==
    [][(last.op = "Save" /\ last.err = nil /\ last'.op = "LoadConfig"
            /\ ValidDocument(Tenants, Applications))
        => /\ last'.err = nil
           /\ Tenants' = Tenants
           /\ Applications' = Applications]_vars

\* A valid document with a tenant, an application whose empty tenant
\* reference was left out of the file and one whose legacy flag is set has
\* been saved and loaded.
C11_Witness ==
    /\ last.op = "LoadConfig"
    /\ last.prev = "Save"
    /\ last.err = nil
    /\ ValidDocument(Tenants, Applications)
    /\ Len(Tenants) > 0
    /\ \E i \in 1..Len(Applications) :
        /\ Applications[i].TenantID = ""
        /\ "tenant_id" \notin DOMAIN file.data.applications[i]
    /\ \E i \in 1..Len(Applications) : Applications[i].IsDMP

\* The type LoadConfig is to give a record of the file: its own when it has
\* one, else the one its legacy flag stands for.
MigratedType(y) ==
    IF "type" \in DOMAIN y /\ y.type # "" THEN y.type
    ELSE IF "is_dmp" \in DOMAIN y /\ y.is_dmp THEN "dmp"
    ELSE "websdk"

\* C13: LoadConfig gives every application record without a type the type dmp
\* when its is_dmp flag is true and websdk when the flag is false or absent,
\* leaves the type of a record that has one, whatever the flag; and loading
\* what Save wrote yields the types that were in memory.
C13_LegacyMigration ==
    [][(last'.op = "LoadConfig" /\ last'.err = nil)
        => LET ys == Get(last'.read.data, "applications", <<>>)
           IN /\ Len(Applications') = Len(ys)
              /\ \A i \in 1..Len(ys) : Applications'[i].Type = MigratedType(ys[i])
              /\ last.op = "Save"
                    => \A i \in 1..Len(ys) : Applications'[i].Type = Applications[i].Type]_vars

\* The first load of a file with a record that has no type and a true flag,
\* and a record that has the type websdk and a true flag.
C13_Witness ==
    /\ last.op = "LoadConfig"
    /\ last.prev = "none"
    /\ last.err = nil
    /\ \E i, j \in 1..Len(Applications) :
        /\ "type" \notin DOMAIN last.read.data.applications[i]
        /\ Get(last.read.data.applications[i], "is_dmp", FALSE)
        /\ Applications[i].Type = "dmp"
        /\ Get(last.read.data.applications[j], "type", "") = "websdk"
        /\ Get(last.read.data.applications[j], "is_dmp", FALSE)
        /\ Applications[j].Type = "websdk"


-----------------------------------------------------------------------------
(* Properties of the Store with encryption at rest *)

SavingOps == {"Save", "UpdateApplication"}

\* Every non-empty sensitive string of the records in memory is, in the
\* records written, an envelope and not the string itself.
WrittenAsEnvelopes(memory, written) ==
    /\ Len(written) = Len(memory)
    /\ \A i \in 1..Len(memory) : \A k \in DOMAIN memory[i] :
        (k \in SensitiveKeys /\ IsString(memory[i][k]) /\ memory[i][k].str # <<>>)
            => /\ EnvelopeFormat(written[i][k].str)
               /\ written[i][k] # memory[i][k]

\* A save with encryption on has written no plaintext.
SavedProtected ==
    (last'.op \in SavingOps /\ EncryptionEnabled')
        => /\ WrittenAsEnvelopes(Tenants', file'.data.tenants)
           /\ WrittenAsEnvelopes(Applications', file'.data.applications)

\* The LoadConfig after a save with encryption on returns the document saved.
ReloadedEqual ==
    /\ last'.err = nil
    /\ Tenants' = Tenants
    /\ Applications' = Applications

\* C12 as stated: with encryption on and one key, Save writes every non-empty
\* sensitive field as an ENC[AES256_GCM,...] envelope, never its plaintext,
\* and the LoadConfig that follows yields the original sensitive fields.
\* It turns on what Save does with a sensitive field that already begins
\* with ENC[AES256_GCM, : passed through unchanged, as specification 4.5
\* describes save, the field is written as it is and the reload fails or
\* differs; encrypted like any other field, the statement holds.
C12_EncryptedRoundTrip ==
    [][/\ SavedProtected
       /\ (last.op \in SavingOps /\ EncryptionEnabled /\ last'.op = "LoadConfig")
            => ReloadedEqual]_vars

\* No sensitive field of the document begins with the envelope prefix.
AllPlain(T, A) ==
    /\ \A i \in 1..Len(T) : NoEnvelopeYet(T[i])
    /\ \A i \in 1..Len(A) : NoEnvelopeYet(A[i])

\* Every non-empty sensitive string of the records in memory that does not
\* begin with the envelope prefix is, in the records written, an envelope
\* and not the string itself, whatever the other fields hold.
PlainWrittenAsEnvelopes(memory, written) ==
    /\ Len(written) = Len(memory)
    /\ \A i \in 1..Len(memory) : \A k \in DOMAIN memory[i] :
        (/\ k \in SensitiveKeys
         /\ IsString(memory[i][k])
         /\ memory[i][k].str # <<>>
         /\ ~HasPrefix(memory[i][k].str, EncryptedFieldPrefix))
            => /\ EnvelopeFormat(written[i][k].str)
               /\ written[i][k] # memory[i][k]

\* A save with encryption on has written no plaintext that does not begin
\* with the envelope prefix.
PlainSavedProtected ==
    (last'.op \in SavingOps /\ EncryptionEnabled')
        => /\ PlainWrittenAsEnvelopes(Tenants', file'.data.tenants)
           /\ PlainWrittenAsEnvelopes(Applications', file'.data.applications)

\* The part of C12 that does not turn on it: with encryption on and one
\* key, Save writes every non-empty sensitive field that does not begin with
\* ENC[AES256_GCM, as an envelope, never its plaintext; and when no sensitive
\* field of the document begins with ENC[AES256_GCM, , the LoadConfig that
\* follows yields the original sensitive fields.
C12_PlainEncryptedRoundTrip ==
    [][/\ PlainSavedProtected
       /\ (last.op \in SavingOps /\ EncryptionEnabled /\ last'.op = "LoadConfig"
            /\ AllPlain(Tenants, Applications))
            => ReloadedEqual]_vars

\* A document with a tenant secret, a client secret and a signing key was
\* saved with encryption on and loaded again; the file holds three envelopes.
C12_Witness ==
    /\ last.op = "LoadConfig"
    /\ last.prev \in SavingOps
    /\ last.err = nil
    /\ EncryptionEnabled
    /\ AllPlain(Tenants, Applications)
    /\ Tenants[1]["admin_api_secret"].str # <<>>
    /\ Applications[1]["client_secret"].str # <<>>
    /\ "signing_key" \in DOMAIN Applications[1]
    /\ WrittenAsEnvelopes(Tenants, file.data.tenants)
    /\ WrittenAsEnvelopes(Applications, file.data.applications)
    /\ rand # {}


-----------------------------------------------------------------------------
(* Properties of a failing call of the sensitive-field policy *)

\* The error of the cipher on the field k of the call e.
CipherError(e, k) ==
    IF e.op = "EncryptSensitiveFields" THEN "failed to generate nonce: unexpected EOF"
    ELSE Decrypt(NewCryptoManagerWithKey(e.key), e.in[k].str).err

\* The error of the call e names the field k.
NamesField(e, k) ==
    LET verb == IF e.op = "EncryptSensitiveFields" THEN "encrypt " ELSE "decrypt "
    IN e.err = "failed to " \o verb \o k \o ": " \o CipherError(e, k)

\* The call e has given the field k its new value, if k was a field to process.
KeepsNewValue(e, k) ==
    LET cm == NewCryptoManagerWithKey(e.key)
    IN IF e.op = "EncryptSensitiveFields"
       THEN (k \in SensitiveKeys /\ e.in[k].str # <<>>
                /\ ~HasPrefix(e.in[k].str, EncryptedFieldPrefix))
            => /\ e.out[k] # e.in[k]
               /\ EnvelopeFormat(e.out[k].str)
               /\ Decrypt(cm, e.out[k].str) = Returned(e.in[k].str, nil)
       ELSE (k \in SensitiveKeys /\ HasPrefix(e.in[k].str, EncryptedFieldPrefix))
            => /\ e.out[k] # e.in[k]
               /\ Encrypt(cm, e.out[k].str, 0).out = e.in[k].str

\* The call e failed on a field it names, which keeps its value, and the
\* sensitive fields visited before it keep their new values.
FailedOnOneField(e) ==
    \E p \in DOMAIN e.order :
        /\ NamesField(e, e.order[p])
        /\ e.out[e.order[p]] = e.in[e.order[p]]
        /\ \A j \in 1..(p - 1) : KeepsNewValue(e, e.order[j])

\* C22: a call of the policy in which a field fails returns an error naming
\* the field it failed on; that field keeps its value, and the sensitive
\* fields visited before it keep their new values.
C22_FailureIsPerField ==
    \A i \in 1..Len(log) : log[i].err # nil => FailedOnOneField(log[i])

\* The same of the calls that return: every call that fails and does not
\* panic has failed on one field.
ReturnedFailureIsPerField ==
    \A i \in 1..Len(log) :
        log[i].err \notin {nil, OpenPanic} => FailedOnOneField(log[i])

\* DecryptSensitiveFields has decrypted the client secret and then failed on
\* the signing key.
C22_Witness ==
    /\ Len(log) = 1
    /\ log[1].op = "DecryptSensitiveFields"
    /\ NamesField(log[1], "signing_key")
    /\ log[1].out["signing_key"] = log[1].in["signing_key"]
    /\ log[1].in["client_secret"] # Str(<<Ch("s")>>)
    /\ log[1].out["client_secret"] = Str(<<Ch("s")>>)
    /\ fields = log[1].out


-----------------------------------------------------------------------------
(* Referential integrity of the document *)

\* C23: every application whose tenant reference is not empty refers to a
\* tenant of the document.
C23_ReferentialIntegrity ==
    \A i \in 1..Len(Applications) :
        Applications[i].TenantID # "" =>
            \E j \in 1..Len(Tenants) : Tenants[j].ID = Applications[i].TenantID


-----------------------------------------------------------------------------
(* Properties of the read operations and of failed mutations *)

\* C25: GetApplication returns an error exactly when no application has the
\* identifier asked for, and the application otherwise, enabled or not;
\* GetEnabledApplications returns the enabled applications in document order;
\* GetApplicationsByTenant returns the applications that refer to the tenant,
\* none for a tenant the document does not hold.
C25_ReadsDistinguishNotFound ==
    \A c \in Callers :
        pc[c] = "runlock" =>
            /\ call[c].op = "GetApplication" =>
                IF HasID(Applications, call[c].id)
                THEN /\ call[c].result[1] = "found"
                     /\ call[c].result[3].ID = call[c].id
                     /\ call[c].result[3] = Applications[call[c].result[2]]
                ELSE call[c].result =
                        <<"error", "application with id '" \o call[c].id \o "' not found">>
            /\ call[c].op = "GetEnabledApplications" =>
                call[c].result = SelectSeq(Applications, LAMBDA a : a.Enabled)
            /\ call[c].op = "GetApplicationsByTenant" =>
                call[c].result = SelectSeq(Applications, LAMBDA a : a.TenantID = call[c].id)

\* GetApplication returns a disabled application while the document also
\* holds an enabled one.
C25_Witness ==
    \E c \in Callers :
        /\ pc[c] = "runlock"
        /\ call[c].op = "GetApplication"
        /\ call[c].result[1] = "found"
        /\ ~call[c].result[3].Enabled
        /\ \E i \in 1..Len(Applications) : Applications[i].Enabled

\* C26: a mutating operation that returns an error leaves the tenants and the
\* applications in memory as they were when it was called.
C26_FailureLeavesDocument ==
    \A c \in Callers :
        (pc[c] = "unlock" /\ call[c].op \in MutatingOps /\ call[c].err # nil)
        => /\ Tenants = call[c].pre.Tenants
           /\ Applications = call[c].pre.Applications


-----------------------------------------------------------------------------
(* Properties of the Store under the HTTP handlers *)

\* C24: the document is read and written only under the lock: a caller that
\* is about to read the applications, or an application through a pointer the
\* Store gave it, holds c.mu.
C24_AccessUnderLock ==
    \A c \in Callers : pc[c] \in {"list", "deref"} => Holds(c)

\* C27: what the handler reads through the pointer GetApplication(id)
\* returned is the application with that identifier.
C27_PointerKeepsIdentity ==
    \A c \in Callers : pc[c] = "deref" => View(call[c].ptr).ID = call[c].id

\* C28: at most one caller is writing the backing file.
C28_OneWriterOfTheFile ==
    Cardinality({c \in Callers : pc[c] \in {"write", "opened"}}) <= 1

\* C29: no caller takes the lock while it holds it, a caller that has
\* returned holds no lock, and every call that was made returns.
C29_DeadlockFree ==
    /\ [](\A c \in Callers :
            /\ pc[c] \in {"idle", "wait", "list", "deref"} => ~Holds(c)
            /\ ~(mu.writer = c /\ c \in mu.readers))
    /\ \A c \in Callers : (pc[c] = "wait") ~> (pc[c] = "idle")

\* A mutation is about to return a validation error while the other caller
\* waits for the lock it holds.
C29_Witness ==
    /\ pc["c1"] = "release"
    /\ call["c1"].op = "AddTenant"
    /\ call["c1"].err = "admin_api_secret is required"
    /\ mu.writer = "c1"
    /\ pc["c2"] = "wait"
    /\ call["c2"].op = "GetEnabledApplications"

-----------------------------------------------------------------------------
(* Properties of the key material resolver *)

Resolutions == {i \in DOMAIN log : log[i].op = "NewCryptoManager"}

\* The resolution took the first source present, and generated a key and
\* wrote the key file only when it found neither. A key file that is there
\* and cannot be read gives an error or its key, never another key.
FirstMatchWins(e) ==
    /\ e.env # "" =>
        /\ e.err = nil
        /\ e.cm.masterKey = deriveKey(e.env, "uet-salt")
    /\ e.env = "" /\ e.before.exists /\ e.err = nil =>
        e.cm.masterKey = deriveKey(e.before.data, "uet-salt")
    /\ e.env = "" /\ ~e.before.exists /\ e.err = nil =>
        /\ e.key \in {RawKey(n) : n \in rand}
        /\ e.wrote
        /\ e.cm.masterKey = deriveKey(e.key, "uet-salt")
    /\ e.wrote \/ (e.key # "" /\ e.err = nil) => e.env = "" /\ ~e.before.exists

\* Two resolutions that gave a key, under the same override or under none
\* with the key file left alone from outside since the first of them began.
SameSecret(i, j) ==
    /\ i < j
    /\ log[i].err = nil /\ log[j].err = nil
    /\ \/ log[i].env # "" /\ log[j].env = log[i].env
       \/ /\ log[i].env = "" /\ log[j].env = ""
          /\ \A k \in DOMAIN log :
                (k > log[i].start \/ k > log[j].start) /\ k < j
                    => log[k].op # "ChangeKeyFile"

\* C21: key resolution is ordered and stable: a non-empty override wins over
\* an existing key file, an existing key file wins over generation, a raw key
\* is generated and persisted only when neither is present; and resolutions
\* under the same override, or under none with no outside change of the key
\* file, return the same derived key, the later ones reading the file the
\* first one wrote.
C21_KeyResolutionOrderedAndStable ==
    /\ \A i \in Resolutions : FirstMatchWins(log[i])
    /\ \A i \in Resolutions, j \in Resolutions :
        SameSecret(i, j) =>
            /\ log[j].cm = log[i].cm
            /\ log[j].env = "" /\ log[j].start >= i => log[j].key = ""

\* The first resolution finds neither source, generates and persists; the
\* second reads the file and returns the same key; then the override is set
\* while the file exists.
C21_Witness ==
    \E i \in Resolutions, j \in Resolutions :
        /\ i <= log[j].start
        /\ log[i].env = "" /\ ~log[i].before.exists /\ log[i].err = nil
        /\ log[i].wrote /\ log[i].after.data = log[i].key
        /\ log[j].env = "" /\ log[j].key = "" /\ log[j].err = nil
        /\ log[j].cm = log[i].cm
        /\ log[Len(log)].op = "Setenv" /\ env = "A" /\ keyFile.exists

\* A caller that came back from a resolution under no override with a key.
HoldsKey(c) == pc[c] = "returned" /\ call[c].getenv = "" /\ call[c].err = nil

\* C30: key resolution never loses a key: no write replaces a key file that
\* exists, and once the concurrent resolutions have returned, every caller
\* holds the key derived from the raw key stored in the key file.
C30_NoKeyLost ==
    /\ \A i \in DOMAIN log : log[i].op = "WriteFile" => ~log[i].before.exists
    /\ (\A c \in Callers : pc[c] \in {"idle", "returned"}) =>
        \A c \in Callers :
            HoldsKey(c) => call[c].cm.masterKey = deriveKey(keyFile.data, "uet-salt")

=============================================================================
